---- MODULE Spec2Model ----
(***************************************************************************)
(* The Initiator (src/initiator_daemon.py): workers that share the job     *)
(* queue of one vantage.  Every database statement that is its own await   *)
(* point in the code is its own step; a transaction's writes take effect   *)
(* at its commit (READ COMMITTED) and its row locks are held until then.   *)
(* Time is counted in abstract units.  The columns no statement reads      *)
(* (payload, last_error, job_run.worker_id, the drives) are left out.      *)
(***************************************************************************)
EXTENDS Integers, Sequences, FiniteSets, TLC

\* ---- bounds of the model ------------------------------------------------
MaxJobs == 4               \* rows the job table can hold
MaxTime == 3               \* the clock runs 0..MaxTime
MaxSnapshots == 2          \* rows the drive_snapshot table can hold
MaxRaises == 1             \* job bodies that raise an exception
MaxCrashes == 1            \* worker processes that die in a job body

\* ---- configuration rows the model is run with ---------------------------
MaxRunningJobsValues == {1, 2}     \* controller_config.max_running_jobs
MaxJobsPerTickValues == {3}        \* controller_config.max_jobs_per_tick
AllowedJobTypes == {"heartbeat", "enqueue_passes_v1", "reap_stale_jobs_v1"}

\* ---- program constants (time scaled to model units) ---------------------
DefaultMaxAttempts == 2    \* job.max_attempts of an inserted row
StaleRunningSeconds == 1   \* payload.get("stale_running_seconds", 3600)
BackoffSeconds == 1        \* attempts * interval '10 seconds'
PrioritySense == 10
PriorityEnqueuePasses == 20
PriorityReap == 50
PriorityHeartbeat == 100

Workers == {"w1", "w2"}
VantageId == "default"
NULL == "NULL"
NoTime == 0 - 1    \* a NULL timestamp

JobTypes == {"heartbeat", "sense_drives_v1", "enqueue_passes_v1", "reap_stale_jobs_v1"}

VARIABLES
    now,        \* the database clock, now()
    cfg,        \* the controller_config row of the vantage
    jobs,       \* vantage_initiator.job: sequence of rows, job_id = index
    runs,       \* vantage_initiator.job_run: sequence of rows, run_id = index
    snapshots,  \* number of rows of vantage_initiator.drive_snapshot
    raises,     \* number of job bodies that raised so far
    crashes,    \* number of workers that died so far
    pc,         \* per worker: the statement of tick() it is about to execute
    loc         \* per worker: the local variables of tick()

\* the fact pipeline (src/fact_jobs.py)
VARIABLES
    chat_log,        \* public.chat_log: sequence of rows, id = index
    sources,         \* vantage_fact.source: sequence of rows, source_id = index
    entities,        \* vantage_fact.entity: sequence of rows, entity_id = index
    predicates,      \* vantage_fact.predicate: set of rows
    claims,          \* vantage_fact.claim: sequence of rows, claim_id = index
    evidence,        \* vantage_fact.evidence: sequence of rows
    contradictions,  \* vantage_fact.contradiction with its contradiction_member rows
    fpc,             \* per fact worker: the statement it is about to execute
    floc             \* per fact worker: the local variables of the running job

\* the card engine (src/card_jobs.py)
VARIABLES
    card_head,       \* vantage_card.card_head: sequence of rows, card_id = index
    card_revision,   \* vantage_card.card_revision: sequence of rows, revision_id = index
    card_link,       \* vantage_card.card_link: set of rows
    card_signal,     \* vantage_card.card_signal: sequence of rows
    origin,          \* per card: its head when it was last written by a consolidation
    cpc,             \* per card worker: the statement it is about to execute
    cloc             \* per card worker: the local variables of the running job

\* the card endpoints (src/app.py)
VARIABLES
    points,          \* the Qdrant collection memory_raw: point id -> payload
    utc,             \* the value the next datetime.utcnow() returns
    apc,             \* per API process: the statement its request is about to execute
    aloc             \* per API process: the request and the local variables of its handler

initiatorVars == <<now, cfg, jobs, runs, snapshots, raises, crashes, pc, loc>>
factVars == <<chat_log, sources, entities, predicates, claims, evidence,
              contradictions, fpc, floc>>

cardVars == <<card_head, card_revision, card_link, card_signal, origin, cpc, cloc>>
apiVars == <<points, utc, apc, aloc>>

\* the chat and feedback path (src/rag_engine/rag_router.py,
\* src/rag_engine/vantage_router.py, /memory_feedback of src/app.py)
VARIABLES
    answer_trace,    \* public.vantage_answer_trace: set of rows
    last_result,     \* per router: its in-memory cache of the last result per key
    answered,        \* the answers the query endpoints have returned to clients
    feedback,        \* the latest feedback call: its answer and what it resolved
    memory,          \* the memory points of memory_raw: point id -> payload
    accepted         \* per memory point: the updates /memory_feedback accepted

\* the function under analysis
VARIABLES
    arg,             \* its arguments
    result           \* its value, once it was applied

chatVars == <<answer_trace, last_result, answered, feedback, memory, accepted>>
fnVars == <<arg, result>>

\* the routers that answer queries and take feedback
Endpoints == {"rag", "vantage"}

\* _rag_key and _vantage_key: (uid, tid) with "" for no thread; the vantage
\* is "default" in every key
CacheKeys == {"u1"} \X {"", "th1"}

\* the ids of the memory points
MemoryIds == {"m1", "m2"}

\* no entry, no row, no call, no value
Nothing == [absent |-> TRUE]

\* nothing was asked; the memory points of the user u1 carry no feedback
ChatEmpty ==
    /\ answer_trace = {}
    /\ last_result = [e \in Endpoints |-> [k \in CacheKeys |-> Nothing]]
    /\ answered = {}
    /\ feedback = Nothing
    /\ memory = [m \in MemoryIds |->
                    [user_id |-> "u1", positive_signals |-> 0, negative_signals |-> 0,
                     user_tags |-> <<>>]]
    /\ accepted = [m \in MemoryIds |-> [positive |-> 0, negative |-> 0, tags |-> {}]]

\* no function is analysed
FnOff ==
    /\ arg = Nothing
    /\ result = Nothing

vars == <<initiatorVars, factVars, cardVars, apiVars, chatVars, fnVars>>

FactWorkers == {"f1", "f2"}

FactIdleLoc == [source_id |-> 0, cands |-> {}, seen |-> 0, rows |-> {}]

\* the fact tables before any message was sent
FactsEmpty ==
    /\ chat_log = <<>>
    /\ sources = <<>>
    /\ entities = <<>>
    /\ predicates = {}
    /\ claims = <<>>
    /\ evidence = <<>>
    /\ contradictions = <<>>
    /\ fpc = [w \in FactWorkers |-> "idle"]
    /\ floc = [w \in FactWorkers |-> FactIdleLoc]

CardWorkers == {"c1", "c2"}

CardIdleLoc == [cursor_card_id |-> 0, rows |-> <<>>, cards |-> {}]

\* the card tables before any consolidation
CardsEmpty ==
    /\ card_head = <<>>
    /\ card_revision = <<>>
    /\ card_link = {}
    /\ card_signal = <<>>
    /\ origin = <<>>
    /\ cpc = [w \in CardWorkers |-> "idle"]
    /\ cloc = [w \in CardWorkers |-> CardIdleLoc]

\* the server processes of the app that handle requests on one collection
ApiProcesses == {"a1", "a2"}

\* the vantage_id query parameter of the endpoints
Vantages == {"default", "v2"}

\* the place of the vantage in an id or a payload that has none
NoVantage == "-"

\* the key of a point of memory_raw: the arguments of uuid5 in the string the
\* writer hashes, f"{uid}|{vid}|{kind}|{topic_key}" in cards_upsert and
\* f"{user_id}|{kind}|__singleton__" (vid is NoVantage) in the other writers
PointIds == [uid : {"u1"}, vid : Vantages \cup {NoVantage},
             kind : {"style", "user_identity", "gravity_profile"},
             topic_key : {"__singleton__", "t1"}]

NoPoint == [absent |-> TRUE]

\* no request yet; status is the status code of the last response
ApiIdleLoc == [req |-> NoPoint, card_id |-> NoPoint, old |-> NoPoint, status |-> 0]

\* memory_raw holds no card and no request is running
ApiEmpty ==
    /\ points = [id \in PointIds |-> NoPoint]
    /\ utc = 1
    /\ apc = [a \in ApiProcesses |-> "idle"]
    /\ aloc = [a \in ApiProcesses |-> ApiIdleLoc]

JobIds == 1..Len(jobs)
RunIds == 1..Len(runs)

IdleLoc == [i |-> 0, job_id |-> 0, run_id |-> 0, ensq |-> <<>>, cont |-> NULL]

\* ---- pure helpers -------------------------------------------------------

PriorityOf(job_type) ==
    CASE job_type = "sense_drives_v1" -> PrioritySense
      [] job_type = "enqueue_passes_v1" -> PriorityEnqueuePasses
      [] job_type = "reap_stale_jobs_v1" -> PriorityReap
      [] OTHER -> PriorityHeartbeat

\* INSERT INTO vantage_initiator.job(job_type, vantage_id, payload, priority)
NewJob(job_id, job_type) ==
    [job_id |-> job_id, job_type |-> job_type, vantage_id |-> VantageId,
     priority |-> PriorityOf(job_type), status |-> "queued",
     attempts |-> 0, max_attempts |-> DefaultMaxAttempts,
     scheduled_at |-> now, locked_by |-> NULL, locked_at |-> NoTime]

\* SELECT count(*) FROM job WHERE vantage_id=$1 AND status='running'
RunningCount(vantage_id) ==
    Cardinality({j \in JobIds : jobs[j].vantage_id = vantage_id /\ jobs[j].status = "running"})

\* a row an open finish_job_* transaction has updated and not yet committed
RowLockHolders(j) ==
    {w \in Workers : pc[w] \in {"finish_success_commit", "finish_failure_commit"}
                     /\ loc[w].job_id = j}

RowLocked(j) == RowLockHolders(j) # {}

\* a claim that does not take the controller_config lock
NoConfigLock == {}

\* the row lock on controller_config taken by SELECT ... FOR UPDATE
ConfigLockHolders == {w \in Workers : pc[w] = "claim_select"}

\* a claim's WHERE clause without attempts < max_attempts
EligibleIgnoringAttempts(j, vantage_id, allowed_job_types) ==
    /\ jobs[j].status = "queued"
    /\ jobs[j].scheduled_at <= now
    /\ jobs[j].vantage_id = vantage_id
    /\ jobs[j].job_type \in allowed_job_types

\* WHERE clause of the claim's SELECT
Eligible(j, vantage_id, allowed_job_types) ==
    /\ jobs[j].status = "queued"
    /\ jobs[j].scheduled_at <= now
    /\ jobs[j].vantage_id = vantage_id
    /\ jobs[j].attempts < jobs[j].max_attempts
    /\ jobs[j].job_type \in allowed_job_types

\* an ORDER BY job_id ASC alone
OrderedByJobId(a, b) == a < b

\* ORDER BY priority ASC, scheduled_at ASC, job_id ASC
OrderedBefore(a, b) ==
    \/ jobs[a].priority < jobs[b].priority
    \/ /\ jobs[a].priority = jobs[b].priority
       /\ jobs[a].scheduled_at < jobs[b].scheduled_at
    \/ /\ jobs[a].priority = jobs[b].priority
       /\ jobs[a].scheduled_at = jobs[b].scheduled_at
       /\ a < b

\* FOR UPDATE SKIP LOCKED LIMIT 1: the rows the SELECT can return
ClaimCandidates(vantage_id, allowed_job_types) ==
    {j \in JobIds : Eligible(j, vantage_id, allowed_job_types) /\ ~RowLocked(j)}

FirstInOrder(S) == CHOOSE j \in S : \A k \in S \ {j} : OrderedBefore(j, k)

\* WHERE clause of the reaper's UPDATE
StaleRunning(j, vantage_id, stale_running_seconds) ==
    /\ jobs[j].vantage_id = vantage_id
    /\ jobs[j].status = "running"
    /\ jobs[j].locked_at # NoTime
    /\ jobs[j].locked_at < now - stale_running_seconds

\* drives["running_oldest_lock_age_s"] > stale_s   (now() - min(locked_at))
OldestLockIsStale(vantage_id, stale_s) ==
    \E j \in JobIds :
        /\ jobs[j].vantage_id = vantage_id
        /\ jobs[j].status = "running"
        /\ jobs[j].locked_at # NoTime
        /\ now - jobs[j].locked_at > stale_s

\* the singleton types tick() ensures, in the order of the code
TickSingletons(allowed) ==
    SelectSeq(<<"sense_drives_v1", "enqueue_passes_v1", "heartbeat">>,
              LAMBDA t : t \in allowed)

\* the singleton types the enqueue_passes_v1 body ensures
PassSingletons(allowed, stale_s) ==
    SelectSeq(<<"heartbeat", "reap_stale_jobs_v1">>,
              LAMBDA t : /\ t \in allowed
                         /\ (t = "reap_stale_jobs_v1" => OldestLockIsStale(VantageId, stale_s)))

\* ---- initial state ------------------------------------------------------

Init ==
    /\ now = 0
    /\ cfg \in [enabled : {TRUE},
                max_jobs_per_tick : MaxJobsPerTickValues,
                max_running_jobs : MaxRunningJobsValues,
                allowed_job_types : {AllowedJobTypes}]
    /\ jobs = <<>>
    /\ runs = <<>>
    /\ snapshots = 0
    /\ raises = 0
    /\ crashes = 0
    /\ pc = [w \in Workers |-> "idle"]
    /\ loc = [w \in Workers |-> IdleLoc]
    /\ FactsEmpty
    /\ CardsEmpty
    /\ ApiEmpty
    /\ ChatEmpty
    /\ FnOff

\* insert_drive_snapshot: the table's row count, which stops at MaxSnapshots
SnapshotInserted == IF snapshots < MaxSnapshots THEN snapshots + 1 ELSE snapshots

\* ---- control flow of tick() ---------------------------------------------

\* where a worker goes after the ensure_singleton_job calls in q are done
AfterEnsure(w, q, cont, i) ==
    IF q # <<>> THEN "ensure_select"
    ELSE IF cont = "finish" THEN "finish_success"
    ELSE IF i < cfg.max_jobs_per_tick THEN "claim_begin"
    ELSE "idle"

Goto(w, p, l) ==
    /\ pc' = [pc EXCEPT ![w] = p]
    /\ loc' = [loc EXCEPT ![w] = IF p = "idle" THEN IdleLoc ELSE l]
    /\ UNCHANGED <<factVars, cardVars, apiVars, chatVars, fnVars>>

\* a tick that does not return when the controller is disabled
TickStartIgnoringEnabled(w) ==
    /\ pc[w] = "idle"
    /\ snapshots' = SnapshotInserted
    /\ LET q == TickSingletons(cfg.allowed_job_types) IN
       Goto(w, AfterEnsure(w, q, "claim", 0),
            [IdleLoc EXCEPT !.ensq = q, !.cont = "claim"])
    /\ UNCHANGED <<now, cfg, jobs, runs, raises, crashes>>

\* tick(): fetch_controller_config, compute_drives_v1, insert_drive_snapshot,
\* then return if the controller is disabled
TickStart(w) ==
    /\ pc[w] = "idle"
    /\ snapshots' = SnapshotInserted
    /\ IF ~cfg.enabled
       THEN Goto(w, "idle", IdleLoc)
       ELSE LET q == TickSingletons(cfg.allowed_job_types) IN
            Goto(w, AfterEnsure(w, q, "claim", 0),
                 [IdleLoc EXCEPT !.ensq = q, !.cont = "claim"])
    /\ UNCHANGED <<now, cfg, jobs, runs, raises, crashes>>

\* ensure_singleton_job: the SELECT of an existing queued/running instance
ensure_singleton_select(w) ==
    /\ pc[w] = "ensure_select"
    /\ LET t == Head(loc[w].ensq)
           existing == \E j \in JobIds : /\ jobs[j].vantage_id = VantageId
                                         /\ jobs[j].job_type = t
                                         /\ jobs[j].status \in {"queued", "running"}
           rest == Tail(loc[w].ensq)
       IN IF existing
          THEN Goto(w, AfterEnsure(w, rest, loc[w].cont, loc[w].i),
                    [loc[w] EXCEPT !.ensq = rest])
          ELSE Goto(w, "ensure_insert", loc[w])
    /\ UNCHANGED <<now, cfg, jobs, runs, snapshots, raises, crashes>>

\* ensure_singleton_job: the INSERT
ensure_singleton_insert(w) ==
    /\ pc[w] = "ensure_insert"
    /\ Len(jobs) < MaxJobs
    /\ LET t == Head(loc[w].ensq)
           rest == Tail(loc[w].ensq)
       IN /\ jobs' = Append(jobs, NewJob(Len(jobs) + 1, t))
          /\ Goto(w, AfterEnsure(w, rest, loc[w].cont, loc[w].i),
                  [loc[w] EXCEPT !.ensq = rest])
    /\ UNCHANGED <<now, cfg, runs, snapshots, raises, crashes>>

\* claim_one_job: lock the controller_config row, count the running jobs
claim_one_job_begin(w) ==
    /\ pc[w] = "claim_begin"
    /\ IF cfg.allowed_job_types = {}
       THEN Goto(w, "idle", IdleLoc)
       ELSE /\ ConfigLockHolders = {}
            /\ IF RunningCount(VantageId) >= cfg.max_running_jobs
               THEN Goto(w, "idle", IdleLoc)
               ELSE Goto(w, "claim_select", loc[w])
    /\ UNCHANGED <<now, cfg, jobs, runs, snapshots, raises, crashes>>

\* a claim's UPDATE that leaves the status as it was
ClaimedRowStillQueued(row, worker_id) ==
    [row EXCEPT !.locked_by = worker_id, !.locked_at = now,
                !.attempts = row.attempts + 1]

\* the row as the claim's UPDATE leaves it
ClaimedRow(row, worker_id) ==
    [row EXCEPT !.status = "running", !.locked_by = worker_id, !.locked_at = now,
                !.attempts = row.attempts + 1]

\* claim_one_job: SELECT the next job, UPDATE it, INSERT the job_run, commit
claim_one_job_select(w) ==
    /\ pc[w] = "claim_select"
    /\ LET cand == ClaimCandidates(VantageId, cfg.allowed_job_types) IN
       IF cand = {}
       THEN /\ Goto(w, "idle", IdleLoc)
            /\ UNCHANGED <<jobs, runs>>
       ELSE LET j == FirstInOrder(cand) IN
            /\ jobs' = [jobs EXCEPT ![j] = ClaimedRow(jobs[j], w)]
            /\ runs' = Append(runs, [run_id |-> Len(runs) + 1, job_id |-> j,
                                     finished_at |-> NoTime, outcome |-> NULL, error |-> NULL])
            /\ Goto(w, "body", [loc[w] EXCEPT !.job_id = j, !.run_id = Len(runs) + 1])
    /\ UNCHANGED <<now, cfg, snapshots, raises, crashes>>

\* the rows as the reaper's UPDATE leaves them
ReapedRow(row) ==
    [row EXCEPT !.status = "queued", !.scheduled_at = now, !.locked_by = NULL,
                !.locked_at = NoTime]

reap_stale_running_jobs(vantage_id, stale_running_seconds) ==
    [j \in JobIds |-> IF StaleRunning(j, vantage_id, stale_running_seconds)
                      THEN ReapedRow(jobs[j]) ELSE jobs[j]]

\* process_job: the body of the claimed job returns normally
process_job(w) ==
    /\ pc[w] = "body"
    /\ LET t == jobs[loc[w].job_id].job_type IN
       CASE t = "heartbeat" ->
              /\ Goto(w, "finish_success", loc[w])
              /\ UNCHANGED <<jobs, snapshots>>
         [] t = "sense_drives_v1" ->
              /\ snapshots' = SnapshotInserted
              /\ Goto(w, "finish_success", loc[w])
              /\ UNCHANGED jobs
         [] t = "enqueue_passes_v1" ->
              LET q == PassSingletons(cfg.allowed_job_types, StaleRunningSeconds) IN
              /\ Goto(w, AfterEnsure(w, q, "finish", loc[w].i),
                      [loc[w] EXCEPT !.ensq = q, !.cont = "finish"])
              /\ UNCHANGED <<jobs, snapshots>>
         [] t = "reap_stale_jobs_v1" ->
              /\ \A j \in JobIds : StaleRunning(j, VantageId, StaleRunningSeconds) => ~RowLocked(j)
              /\ jobs' = reap_stale_running_jobs(VantageId, StaleRunningSeconds)
              /\ Goto(w, "finish_success", loc[w])
              /\ UNCHANGED snapshots
    /\ UNCHANGED <<now, cfg, runs, raises, crashes>>

\* where the tick goes after the except branch is entered
AfterRaise == "finish_failure"

\* process_job raises: tick() enters its except branch
process_job_raises(w) ==
    /\ pc[w] = "body"
    /\ raises < MaxRaises
    /\ raises' = raises + 1
    /\ Goto(w, AfterRaise, loc[w])
    /\ UNCHANGED <<now, cfg, jobs, runs, snapshots, crashes>>

\* the for loop of tick() after a finish_job_* call
NextIteration(w) ==
    IF loc[w].i + 1 < cfg.max_jobs_per_tick
    THEN Goto(w, "claim_begin", [IdleLoc EXCEPT !.i = loc[w].i + 1])
    ELSE Goto(w, "idle", IdleLoc)

\* finish_job_success: UPDATE job (takes the row lock)
finish_job_success_update(w) ==
    /\ pc[w] = "finish_success"
    /\ ~RowLocked(loc[w].job_id)
    /\ Goto(w, "finish_success_commit", loc[w])
    /\ UNCHANGED <<now, cfg, jobs, runs, snapshots, raises, crashes>>

SucceededRow(row) ==
    [row EXCEPT !.status = "succeeded", !.locked_by = NULL, !.locked_at = NoTime]

\* finish_job_success: UPDATE job_run, commit
finish_job_success_commit(w) ==
    /\ pc[w] = "finish_success_commit"
    /\ jobs' = [jobs EXCEPT ![loc[w].job_id] = SucceededRow(@)]
    /\ runs' = [runs EXCEPT ![loc[w].run_id] =
                    [@ EXCEPT !.finished_at = now, !.outcome = "ok", !.error = NULL]]
    /\ NextIteration(w)
    /\ UNCHANGED <<now, cfg, snapshots, raises, crashes>>

\* finish_job_failure: UPDATE job (takes the row lock)
finish_job_failure_update(w) ==
    /\ pc[w] = "finish_failure"
    /\ ~RowLocked(loc[w].job_id)
    /\ Goto(w, "finish_failure_commit", loc[w])
    /\ UNCHANGED <<now, cfg, jobs, runs, snapshots, raises, crashes>>

\* a failure that requeues without a backoff
FailedRowNoBackoff(row) ==
    [row EXCEPT !.status = IF row.attempts < row.max_attempts THEN "queued" ELSE "failed",
                !.scheduled_at = IF row.attempts < row.max_attempts
                                 THEN now
                                 ELSE row.scheduled_at,
                !.locked_by = NULL, !.locked_at = NoTime]

\* the row as finish_job_failure's UPDATE leaves it
FailedRow(row) ==
    [row EXCEPT !.status = IF row.attempts < row.max_attempts THEN "queued" ELSE "failed",
                !.scheduled_at = IF row.attempts < row.max_attempts
                                 THEN now + row.attempts * BackoffSeconds
                                 ELSE row.scheduled_at,
                !.locked_by = NULL, !.locked_at = NoTime]

\* finish_job_failure: UPDATE job_run, commit
finish_job_failure_commit(w) ==
    /\ pc[w] = "finish_failure_commit"
    /\ jobs' = [jobs EXCEPT ![loc[w].job_id] = FailedRow(@)]
    /\ runs' = [runs EXCEPT ![loc[w].run_id] =
                    [@ EXCEPT !.finished_at = now, !.outcome = NULL, !.error = "error"]]
    /\ NextIteration(w)
    /\ UNCHANGED <<now, cfg, snapshots, raises, crashes>>

\* ---- environment --------------------------------------------------------

\* the worker process dies while it runs a job body and is started again
Crash(w) ==
    /\ pc[w] = "body"
    /\ crashes < MaxCrashes
    /\ crashes' = crashes + 1
    /\ Goto(w, "idle", IdleLoc)
    /\ UNCHANGED <<now, cfg, jobs, runs, snapshots, raises>>

AdvanceTime ==
    /\ now < MaxTime
    /\ now' = now + 1
    /\ UNCHANGED <<cfg, jobs, runs, snapshots, raises, crashes, pc, loc>>
    /\ UNCHANGED <<factVars, cardVars, apiVars, chatVars, fnVars>>

\* an operator switches controller_config.enabled
SetEnabled ==
    /\ cfg' = [cfg EXCEPT !.enabled = ~@]
    /\ UNCHANGED <<now, jobs, runs, snapshots, raises, crashes, pc, loc>>
    /\ UNCHANGED <<factVars, cardVars, apiVars, chatVars, fnVars>>

\* time passes while the workers are between ticks or inside a job body:
\* a single statement is short against the unit of time
AdvanceTimeBetweenStatements ==
    /\ \A w \in Workers : pc[w] \in {"idle", "body"}
    /\ AdvanceTime

\* a tick while the drive_snapshot table has room
BoundedTickStart(w) ==
    /\ snapshots < MaxSnapshots
    /\ TickStart(w)

\* the statements of a tick after its start, while no job body raises
JobSteps(w) ==
    \/ ensure_singleton_select(w)
    \/ ensure_singleton_insert(w)
    \/ claim_one_job_begin(w)
    \/ claim_one_job_select(w)
    \/ process_job(w)
    \/ finish_job_success_update(w)
    \/ finish_job_success_commit(w)

\* the except branch of tick()
FailureSteps(w) ==
    \/ process_job_raises(w)
    \/ finish_job_failure_update(w)
    \/ finish_job_failure_commit(w)

TickStep(w) == JobSteps(w) \/ FailureSteps(w)

\* two workers share the queue; a worker may stay in a job body for any time
Next ==
    \/ \E w \in Workers : BoundedTickStart(w)
    \/ \E w \in Workers : TickStep(w)
    \/ AdvanceTimeBetweenStatements

Spec == Init /\ [][Next]_vars

\* one worker that may die in a job body and restart; the operator may
\* switch the controller off
NextSolo ==
    \/ BoundedTickStart("w1")
    \/ TickStep("w1")
    \/ Crash("w1")
    \/ AdvanceTime
    \/ SetEnabled

SpecSolo == Init /\ [][NextSolo]_vars

\* one worker whose tick loop never stops: it takes its next statement
\* whenever it can, and is restarted when it dies; no job body raises
NextLive ==
    \/ TickStart("w1")
    \/ JobSteps("w1")
    \/ Crash("w1")
    \/ AdvanceTime

LiveSolo == Init /\ [][NextLive]_vars /\ WF_vars(TickStart("w1") \/ JobSteps("w1"))

TypeOK ==
    /\ now \in 0..MaxTime
    /\ snapshots \in 0..MaxSnapshots
    /\ Len(jobs) <= MaxJobs

\* ---- vocabulary of the properties ---------------------------------------

\* the step is a successful claim by worker w
ClaimedBy(w) == pc[w] = "claim_select" /\ pc'[w] = "body"

\* the job_run rows of job j in the table rs that are open
OpenRuns(rs, j) == {r \in 1..Len(rs) : rs[r].job_id = j /\ rs[r].finished_at = NoTime}

LiveInstances(job_type) ==
    {j \in JobIds : /\ jobs[j].vantage_id = VantageId
                    /\ jobs[j].job_type = job_type
                    /\ jobs[j].status \in {"queued", "running"}}

\* ---- C1 -----------------------------------------------------------------
\* C1: in every reachable state the number of running jobs of the vantage is
\* at most its max_running_jobs, under every interleaving of claims,
\* finishes and reaper passes of the workers.
MaxRunningRespected == RunningCount(VantageId) <= cfg.max_running_jobs

\* the cap is reached while another worker is about to claim a queued job
WitnessC1 ==
    /\ RunningCount(VantageId) = cfg.max_running_jobs
    /\ \E w \in Workers : pc[w] = "claim_begin"
    /\ ClaimCandidates(VantageId, cfg.allowed_job_types) # {}

\* ---- C2 -----------------------------------------------------------------
\* C2: a claim takes a job that is 'queued' and leaves it 'running', so a
\* second claim of the same job needs it back in 'queued'; and the only
\* steps that put a job back to 'queued' are the commit of
\* finish_job_failure for that job and a reaper pass.
ClaimedAtMostOnce ==
    [][ /\ \A w \in Workers :
             ClaimedBy(w) =>
                 /\ jobs[loc'[w].job_id].status = "queued"
                 /\ jobs'[loc'[w].job_id].status = "running"
                 /\ Len(runs') = Len(runs) + 1
        /\ \A j \in JobIds :
             (jobs[j].status # "queued" /\ jobs'[j].status = "queued") =>
                 \E w \in Workers :
                     \/ pc[w] = "finish_failure_commit" /\ pc'[w] # pc[w] /\ loc[w].job_id = j
                     \/ /\ pc[w] = "body" /\ pc'[w] # pc[w]
                        /\ jobs[loc[w].job_id].job_type = "reap_stale_jobs_v1"
      ]_vars

\* both workers hold a claimed job at once, and one job has been claimed twice
WitnessC2 ==
    /\ \A w \in Workers : pc[w] = "body"
    /\ \E w, v \in Workers : loc[w].job_id # loc[v].job_id
    /\ \E r1, r2 \in RunIds : r1 # r2 /\ runs[r1].job_id = runs[r2].job_id

\* ---- C3 -----------------------------------------------------------------
\* C3: for every singleton job type at most one job of the vantage is
\* queued or running, in every reachable state.
SingletonUnique == \A t \in JobTypes : Cardinality(LiveInstances(t)) <= 1

\* ---- C4 -----------------------------------------------------------------
\* C4: right after every successful claim of a job, exactly one job_run row
\* of that job is open.
OneOpenRunAfterClaim ==
    [][\A w \in Workers :
          ClaimedBy(w) => Cardinality(OpenRuns(runs', loc'[w].job_id)) = 1]_vars

\* ---- C5 -----------------------------------------------------------------
\* C5: if ticks keep running for a vantage that allows enqueue_passes_v1 and
\* reap_stale_jobs_v1, every job that is running with a lock older than
\* stale_running_seconds eventually leaves 'running' (the reaper requeues
\* it), whatever its type and however many jobs are running.
StuckJobsAreReaped ==
    ([]<><<TickStart("w1")>>_vars) =>
        \A j \in 1..MaxJobs :
            (/\ j \in JobIds
             /\ {"enqueue_passes_v1", "reap_stale_jobs_v1"} \subseteq cfg.allowed_job_types
             /\ StaleRunning(j, VantageId, StaleRunningSeconds))
                ~> (j \in JobIds /\ jobs[j].status # "running")

\* the same for a stuck heartbeat job while max_running_jobs leaves room
StuckHeartbeatIsReaped ==
    ([]<><<TickStart("w1")>>_vars) =>
        \A j \in 1..MaxJobs :
            (/\ j \in JobIds
             /\ jobs[j].job_type = "heartbeat"
             /\ cfg.max_running_jobs > 1
             /\ StaleRunning(j, VantageId, StaleRunningSeconds))
                ~> (j \in JobIds /\ jobs[j].status # "running")

\* ---- C6 -----------------------------------------------------------------
\* the step is a reaper pass by worker w
ReaperPassBy(w) ==
    /\ pc[w] = "body" /\ pc'[w] = "finish_success"
    /\ jobs[loc[w].job_id].job_type = "reap_stale_jobs_v1"

\* C6: a reaper pass leaves every job that was running with a stale lock
\* queued, with scheduled_at = now and the lock cleared, and claimable by the
\* next claim (it meets the claim's eligibility conditions).
ReapedIsClaimable ==
    [][\A w \in Workers :
          ReaperPassBy(w) =>
              \A j \in JobIds :
                  (jobs[j].status = "running" /\ jobs[j].locked_at # NoTime
                   /\ jobs[j].locked_at < now - StaleRunningSeconds) =>
                      /\ jobs'[j].status = "queued"
                      /\ jobs'[j].scheduled_at = now
                      /\ jobs'[j].locked_by = NULL
                      /\ jobs'[j].locked_at = NoTime
                      /\ jobs'[j].scheduled_at <= now
                      /\ jobs'[j].attempts < jobs'[j].max_attempts
                      /\ jobs'[j].job_type \in cfg.allowed_job_types]_vars

\* ---- C7 -----------------------------------------------------------------
\* job a sorts strictly before job b in (priority, scheduled_at, job_id)
SortsBefore(a, b) ==
    \/ jobs[a].priority < jobs[b].priority
    \/ jobs[a].priority = jobs[b].priority /\ jobs[a].scheduled_at < jobs[b].scheduled_at
    \/ jobs[a].priority = jobs[b].priority /\ jobs[a].scheduled_at = jobs[b].scheduled_at /\ a < b

\* the jobs of the vantage a claim may take, by their committed rows
EligibleSet ==
    {j \in JobIds : /\ jobs[j].status = "queued"
                    /\ jobs[j].scheduled_at <= now
                    /\ jobs[j].vantage_id = VantageId
                    /\ jobs[j].attempts < jobs[j].max_attempts
                    /\ jobs[j].job_type \in cfg.allowed_job_types}

FailureIsRequeuedOrFailed ==
    [][\A w \in Workers :
          /\ (pc[w] = "body" /\ pc'[w] # pc[w] /\ raises' # raises) => pc'[w] = "finish_failure"
          /\ (pc[w] = "finish_failure_commit" /\ pc'[w] # pc[w]) =>
                LET j == loc[w].job_id
                    r == loc[w].run_id
                IN /\ IF jobs[j].attempts < jobs[j].max_attempts
                      THEN /\ jobs'[j].status = "queued"
                           /\ jobs'[j].scheduled_at = now + jobs[j].attempts * BackoffSeconds
                      ELSE /\ jobs'[j].status = "failed"
                   /\ jobs'[j].locked_by = NULL
                   /\ jobs'[j].locked_at = NoTime
                   /\ runs'[r].finished_at # NoTime
                   /\ runs'[r].error = "error"
                   /\ IF loc[w].i + 1 < cfg.max_jobs_per_tick
                      THEN pc'[w] = "claim_begin" /\ loc'[w].i = loc[w].i + 1
                      ELSE pc'[w] = "idle"]_vars

\* a failed body was requeued with its backoff and the tick is at its next claim
WitnessC8 ==
    \E w \in Workers, r \in RunIds :
        /\ pc[w] = "claim_begin" /\ loc[w].i > 0
        /\ runs[r].error = "error"
        /\ jobs[runs[r].job_id].status = "queued"
        /\ jobs[runs[r].job_id].scheduled_at > now

\* ---- C9 -----------------------------------------------------------------
\* C9: attempts <= max_attempts for every job in every reachable state, so a
\* job has at most max_attempts job_run rows.
AttemptsBounded ==
    \A j \in JobIds :
        /\ jobs[j].attempts <= jobs[j].max_attempts
        /\ Cardinality({r \in RunIds : runs[r].job_id = j}) <= jobs[j].max_attempts

\* a job that used up its attempts is back in 'queued' after a reaper pass
WitnessC9 ==
    \E j \in JobIds :
        /\ jobs[j].attempts = jobs[j].max_attempts
        /\ jobs[j].status = "queued"

\* ---- C10 ----------------------------------------------------------------
\* C10: a tick that starts while the controller is disabled inserts exactly
\* one drive snapshot, leaves the job and job_run tables unchanged and ends.
DisabledTickOnlySnapshots ==
    [][\A w \in Workers :
          (TickStart(w) /\ ~cfg.enabled) =>
              /\ snapshots' = snapshots + 1
              /\ jobs' = jobs
              /\ runs' = runs
              /\ pc'[w] = "idle"]_vars

\* the controller is off, the job table is not empty, and a tick has run
\* since the last job was inserted
WitnessC10 ==
    /\ ~cfg.enabled
    /\ \A w \in Workers : pc[w] = "idle"
    /\ snapshots = MaxSnapshots
    /\ Len(jobs) = 2

\* =========================================================================
\* The fact pipeline (src/fact_jobs.py): seeding sources from chat_log rows,
\* extracting 'Key: Value' claims, scanning for contradictions.  A text is
\* the sequence of its lines; a line is its key and its value, the key ""
\* for a line that is no 'Key: Value' line.
\* =========================================================================

\* ---- bounds --------------------------------------------------------------
MaxChat == 2               \* rows the chat_log table can hold

\* ---- program constants (scaled) ------------------------------------------
DefaultMaxGroups == 1      \* fact_contradiction_scan_once(max_groups=10)
DefaultMaxFacts == 3       \* fact_extract_once(max_facts=50)
ShaConfidence == 90        \* confidence 0.90 of the doc.content_sha256 claim
KvConfidence == 60         \* confidence 0.60 of an attr.* claim
SeedLimits == {0, 1, 2}      \* payload "limit" of fact_seed_from_chat_log_v1

Line(k, v) == [key |-> k, value |-> v]

\* the messages the users send
ChatTexts ==
    { <<Line("Favorite", "red")>>,
      <<Line("Favorite", "blue")>>,
      <<Line("favorite", "red"), Line("Favorite", "blue")>>,
      <<Line("Favorite", "red"), Line("Favorite", "blue"), Line("Favorite", "green")>>,
      <<Line("", "hello")>> }

\* the rows a chat turn can add to public.chat_log
ChatInputs ==
    [source : {"frontend/chat:user"}, vantage_id : {"default"}, user_id : {"u1"},
     text : ChatTexts]
    \cup [source : {"frontend/chat:assistant"}, vantage_id : {"default"}, user_id : {"u1"},
          text : {<<Line("Favorite", "red")>>}]
    \cup [source : {"frontend/chat:user"}, vantage_id : {NULL, "other"}, user_id : {"u1"},
          text : {<<Line("Favorite", "red")>>}]

\* _sha256_hex: the digest of a text, a value that stands for that text alone
sha256_hex(content) == <<"sha256", content>>

\* _norm_key: lower case, runs of other characters become "_"
norm_key(k) ==
    CASE k = "Favorite" -> "favorite"
      [] k = "favorite" -> "favorite"
      [] k = "Color" -> "color"
      [] k = "" -> "unknown"
      [] OTHER -> k

\* _KV_RE.match(line)
IsKvLine(line) == line.key # ""

\* parse_kv_facts: one fact per 'Key: Value' line, at most max_facts of them
parse_kv_facts(content, max_facts) ==
    LET kv == SelectSeq(content, IsKvLine)
        n == IF Len(kv) < max_facts THEN Len(kv) ELSE max_facts
    IN [i \in 1..n |-> [predicate |-> <<"attr", norm_key(kv[i].key)>>,
                        value |-> kv[i].value]]

ChatIds == 1..Len(chat_log)
SourceIds == 1..Len(sources)
EntityIds == 1..Len(entities)
ClaimIds == 1..Len(claims)
ContradictionIds == 1..Len(contradictions)

NoSha == <<>>    \* a NULL content_sha256

\* a user or the assistant adds a row to public.chat_log
chat_message(m) ==
    /\ Len(chat_log) < MaxChat
    /\ chat_log' = Append(chat_log, [id |-> Len(chat_log) + 1, source |-> m.source,
                                     vantage_id |-> m.vantage_id, user_id |-> m.user_id,
                                     text |-> m.text,
                                     created_at |-> Len(chat_log) + 1])
    /\ UNCHANGED <<sources, entities, predicates, claims, evidence, contradictions,
                   fpc, floc>>
    /\ UNCHANGED <<initiatorVars, cardVars, apiVars, chatVars, fnVars>>

FactGoto(w, p, l) ==
    /\ fpc' = [fpc EXCEPT ![w] = p]
    /\ floc' = [floc EXCEPT ![w] = IF p = "idle" THEN FactIdleLoc ELSE l]
    /\ UNCHANGED <<initiatorVars, cardVars, apiVars, chatVars, fnVars>>

\* ---- fact_seed_from_chat_log_once ---------------------------------------

\* 'chat_log:' || id::text
ExternalId(id) == <<"chat_log", id>>

\* the text has at least one 'Key: Value' line
HasKvLine(text) == \E n \in 1..Len(text) : IsKvLine(text[n])

\* the WHERE clause on the chat_log row
SeedEligible(cl, vantage_id) ==
    /\ cl.source = "frontend/chat:user"
    /\ Len(cl.text) > 0
    /\ HasKvLine(cl.text)
    /\ \/ vantage_id = "default" /\ cl.vantage_id \in {NULL, "default"}
       \/ cl.vantage_id = vantage_id

\* LEFT JOIN source s ON s.external_id = 'chat_log:' || id ... s.source_id IS NULL
NotSeeded(id) == \A s \in SourceIds : sources[s].external_id # ExternalId(id)

\* a candidates CTE without the anti-join on source
SeedCandidatesNoAntiJoin(vantage_id, limit) ==
    LET c == {i \in ChatIds : SeedEligible(chat_log[i], vantage_id)}
    IN {i \in c : Cardinality({k \in c : chat_log[k].created_at > chat_log[i].created_at}) < limit}

\* the candidates CTE: ORDER BY created_at DESC LIMIT $2
SeedCandidates(vantage_id, limit) ==
    LET c == {i \in ChatIds : SeedEligible(chat_log[i], vantage_id) /\ NotSeeded(i)}
    IN {i \in c : Cardinality({k \in c : chat_log[k].created_at > chat_log[i].created_at}) < limit}

\* the row the INSERT builds from a chat_log row
SeededSource(source_id, cl) ==
    [source_id |-> source_id, source_type |-> "chat_log",
     external_id |-> ExternalId(cl.id),
     title |-> <<"chat_log:user", IF cl.vantage_id = NULL THEN "<NULL>" ELSE cl.vantage_id, cl.id>>,
     content |-> cl.text, content_sha256 |-> NoSha,
     metadata |-> [chat_log_id |-> cl.id, user_id |-> cl.user_id], status |-> "pending"]

\* the source table after the INSERT of the candidates, newest first
RECURSIVE SeededSources(_, _)
SeededSources(table, cands) ==
    IF cands = {} THEN table
    ELSE LET i == CHOOSE c \in cands : \A k \in cands : chat_log[k].created_at <= chat_log[c].created_at
         IN SeededSources(Append(table, SeededSource(Len(table) + 1, chat_log[i])), cands \ {i})

\* source.external_id is UNIQUE: the INSERT of a row whose external_id is
\* already stored fails, and the statement with it
UniqueViolation(cands) == \E i \in cands : ~NotSeeded(i)

\* the statement takes its snapshot: the candidates it will insert
fact_seed_select(w) ==
    /\ fpc[w] = "idle"
    /\ \E limit \in SeedLimits :
          IF limit <= 0
          THEN FactGoto(w, "idle", FactIdleLoc)
          ELSE FactGoto(w, "seed_insert",
                        [FactIdleLoc EXCEPT !.cands = SeedCandidates(VantageId, limit),
                                            !.seen = Len(sources)])
    /\ UNCHANGED <<chat_log, sources, entities, predicates, claims, evidence,
                   contradictions>>

\* the statement inserts its candidates, or fails on the unique constraint
fact_seed_insert(w) ==
    /\ fpc[w] = "seed_insert"
    /\ sources' = IF UniqueViolation(floc[w].cands) THEN sources
                  ELSE SeededSources(sources, floc[w].cands)
    /\ FactGoto(w, "idle", FactIdleLoc)
    /\ UNCHANGED <<chat_log, entities, predicates, claims, evidence, contradictions>>

\* ---- fact_extract_once ---------------------------------------------------

\* the transaction is open: the source is claimed and its row locked
ExtractPcs == {"extract_done"}

\* the open extraction transactions that hold the row lock of a source
SourceLockHolders(source_id) ==
    {w \in FactWorkers : fpc[w] \in ExtractPcs /\ floc[w].source_id = source_id}

\* a claim of a source that takes no row lock and skips no locked row
ExtractCandidatesUnlocked == {s \in SourceIds : sources[s].status = "pending"}

\* WHERE status='pending' ... FOR UPDATE SKIP LOCKED
ExtractCandidates ==
    {s \in SourceIds : sources[s].status = "pending" /\ SourceLockHolders(s) = {}}

ShaPredicate == <<"doc", "content_sha256">>

\* doc_name = title if title else f"source:{source_id}"
DocName(src) == IF src.title # <<>> THEN src.title ELSE <<"source", src.source_id>>

\* get_or_create_entity: the entity_id it returns
get_or_create_entity(entity_type, canonical_name) ==
    LET found == {e \in EntityIds : /\ entities[e].entity_type = entity_type
                                    /\ entities[e].canonical_name = canonical_name}
    IN IF found # {} THEN CHOOSE e \in found : \A k \in found : e <= k
       ELSE Len(entities) + 1

\* the entity table after get_or_create_entity
EntitiesWith(entity_type, canonical_name) ==
    IF get_or_create_entity(entity_type, canonical_name) <= Len(entities) THEN entities
    ELSE Append(entities, [entity_id |-> Len(entities) + 1, entity_type |-> entity_type,
                           canonical_name |-> canonical_name])

\* ensure_predicate: INSERT ... ON CONFLICT (predicate) DO NOTHING
ensure_predicate(table, predicate, cardinality) ==
    IF \E r \in table : r.predicate = predicate THEN table
    ELSE table \cup {[predicate |-> predicate, cardinality |-> cardinality]}

\* the claim with the canonical key of (subject, predicate, value), 0 if none
ClaimWithKey(table, subject_entity_id, predicate, value) ==
    LET found == {c \in 1..Len(table) : /\ table[c].subject_entity_id = subject_entity_id
                                        /\ table[c].predicate = predicate
                                        /\ table[c].value = value}
    IN IF found = {} THEN 0 ELSE CHOOSE c \in found : TRUE

\* upsert_claim_literal: the claim table after the INSERT ... ON CONFLICT
upsert_claim_literal(table, subject_entity_id, predicate, value, confidence) ==
    LET c == ClaimWithKey(table, subject_entity_id, predicate, value)
    IN IF c = 0
       THEN Append(table, [claim_id |-> Len(table) + 1,
                           subject_entity_id |-> subject_entity_id,
                           predicate |-> predicate, value |-> value,
                           confidence |-> confidence, status |-> "active"])
       ELSE [table EXCEPT ![c].confidence =
                 IF table[c].confidence > confidence THEN table[c].confidence ELSE confidence]

\* add_evidence
add_evidence(table, claim_id, source_id) ==
    Append(table, [claim_id |-> claim_id, source_id |-> source_id])

\* what one run writes for its source: the doc.content_sha256 claim, then
\* one claim per parsed fact, each with its evidence row
ExtractItems(src) ==
    <<[predicate |-> ShaPredicate, value |-> sha256_hex(src.content), confidence |-> ShaConfidence]>>
    \o [i \in 1..Len(parse_kv_facts(src.content, DefaultMaxFacts)) |->
          [predicate |-> parse_kv_facts(src.content, DefaultMaxFacts)[i].predicate,
           value |-> parse_kv_facts(src.content, DefaultMaxFacts)[i].value,
           confidence |-> KvConfidence]]

RECURSIVE ClaimsAfter(_, _, _)
ClaimsAfter(table, subject, items) ==
    IF items = <<>> THEN table
    ELSE CHOOSE r \in {ClaimsAfter(t, subject, rest) :
                           t \in {upsert_claim_literal(table, subject, Head(items).predicate,
                                                       Head(items).value, Head(items).confidence)},
                           rest \in {Tail(items)}} : TRUE

\* a run that records no evidence row
EvidenceAfterNone(ctable, etable, subject, source_id, items) == etable

RECURSIVE EvidenceAfter(_, _, _, _, _)
EvidenceAfter(ctable, etable, subject, source_id, items) ==
    IF items = <<>> THEN etable
    ELSE CHOOSE r \in {EvidenceAfter(ct, add_evidence(etable,
                                ClaimWithKey(ct, subject, Head(items).predicate, Head(items).value),
                                source_id), subject, source_id, rest) :
                           ct \in {upsert_claim_literal(ctable, subject, Head(items).predicate,
                                                        Head(items).value, Head(items).confidence)},
                           rest \in {Tail(items)}} : TRUE

RECURSIVE PredicatesAfter(_, _)
PredicatesAfter(table, items) ==
    IF items = <<>> THEN table
    ELSE PredicatesAfter(ensure_predicate(table, Head(items).predicate, "one"), Tail(items))

\* the transaction claims the first pending source that is not locked
fact_extract_claim(w) ==
    /\ fpc[w] = "idle"
    /\ IF ExtractCandidates = {}
       THEN FactGoto(w, "idle", FactIdleLoc)
       ELSE LET s == CHOOSE c \in ExtractCandidates : \A k \in ExtractCandidates : c <= k
            IN FactGoto(w, "extract_done", [FactIdleLoc EXCEPT !.source_id = s])
    /\ UNCHANGED <<chat_log, sources, entities, predicates, claims, evidence,
                   contradictions>>

\* the rest of the transaction, whose statements no other transaction sees
\* before the commit: the content hash, the document entity, the predicates,
\* the claims with their evidence, status='done', and the commit
fact_extract_done(w) ==
    /\ fpc[w] = "extract_done"
    /\ LET s == floc[w].source_id
           src == sources[s]
           doc_eid == get_or_create_entity("document", DocName(src))
       IN \E subject \in {doc_eid}, items \in {ExtractItems(src)} :
          /\ sources' = [sources EXCEPT ![s].content_sha256 = sha256_hex(src.content),
                                        ![s].status = "done"]
          /\ entities' = EntitiesWith("document", DocName(src))
          /\ predicates' = PredicatesAfter(predicates, items)
          /\ claims' = ClaimsAfter(claims, subject, items)
          /\ evidence' = EvidenceAfter(claims, evidence, subject, s, items)
    /\ FactGoto(w, "idle", FactIdleLoc)
    /\ UNCHANGED <<chat_log, contradictions>>

\* the source table after the rollback of the transaction
RolledBackSources(source_id) == sources

\* an exception inside the transaction: everything is rolled back
fact_extract_raises(w) ==
    /\ fpc[w] \in ExtractPcs
    /\ sources' = RolledBackSources(floc[w].source_id)
    /\ FactGoto(w, "idle", FactIdleLoc)
    /\ UNCHANGED <<chat_log, entities, predicates, claims, evidence, contradictions>>

\* ---- fact_contradiction_scan_once ---------------------------------------

\* predicates whose arg_schema says cardinality 'one'
SinglePreds == {r.predicate : r \in {q \in predicates : q.cardinality = "one"}}

\* the active claims of a (subject, predicate) group
GroupClaims(subject, predicate) ==
    {c \in ClaimIds : /\ claims[c].status = "active"
                      /\ claims[c].subject_entity_id = subject
                      /\ claims[c].predicate = predicate}

\* count(distinct object_literal)
DistinctN(g) == Cardinality({claims[c].value : c \in GroupClaims(g.subject, g.predicate)})

GroupN(g) == Cardinality(GroupClaims(g.subject, g.predicate))

\* GROUP BY subject_entity_id, predicate HAVING count(distinct ...) > 1
ContradictoryGroups ==
    {g \in {[subject |-> claims[c].subject_entity_id, predicate |-> claims[c].predicate] :
                c \in {k \in ClaimIds : claims[k].status = "active"}} :
        g.predicate \in SinglePreds /\ DistinctN(g) > 1}

\* ORDER BY distinct_n DESC, n DESC
ScanOrderedBefore(a, b) ==
    \/ DistinctN(a) > DistinctN(b)
    \/ DistinctN(a) = DistinctN(b) /\ GroupN(a) > GroupN(b)

\* the sets of groups LIMIT max_groups can return: rows that tie in the
\* order come in any order
ScanResults(max_groups) ==
    {R \in SUBSET ContradictoryGroups :
        /\ Cardinality(R) = IF Cardinality(ContradictoryGroups) < max_groups
                            THEN Cardinality(ContradictoryGroups) ELSE max_groups
        /\ \A a \in R, b \in ContradictoryGroups \ R : ~ScanOrderedBefore(b, a)}

\* the open contradiction of a group with the largest id, 0 if none
OpenContradiction(table, g) ==
    LET found == {c \in 1..Len(table) : /\ table[c].subject_entity_id = g.subject
                                        /\ table[c].predicate = g.predicate
                                        /\ table[c].status = "open"}
    IN IF found = {} THEN 0 ELSE CHOOSE c \in found : \A k \in found : k <= c

\* one round of the loop at commit: r.cid is what the round's SELECT of an
\* open contradiction returned (0 if none), and so the round's INSERT is a
\* new row or the round only adds its members to the row r.cid
ContradictionRecorded(table, r) ==
    IF r.cid = 0
    THEN Append(table, [contradiction_id |-> Len(table) + 1,
                        subject_entity_id |-> r.group.subject, predicate |-> r.group.predicate,
                        status |-> "open", members |-> r.claim_ids])
    ELSE [table EXCEPT ![r.cid].members = @ \cup r.claim_ids]

RECURSIVE ContradictionsAfter(_, _)
ContradictionsAfter(table, rows) ==
    IF rows = {} THEN table
    ELSE LET r == CHOOSE x \in rows : TRUE
         IN ContradictionsAfter(ContradictionRecorded(table, r), rows \ {r})

\* the SELECT of the groups, outside the transaction
fact_contradiction_scan_select(w) ==
    /\ fpc[w] = "idle"
    /\ \E R \in ScanResults(DefaultMaxGroups) :
          FactGoto(w, "scan_write",
                   [FactIdleLoc EXCEPT !.rows =
                        {[group |-> g, claim_ids |-> GroupClaims(g.subject, g.predicate)] : g \in R}])
    /\ UNCHANGED <<chat_log, sources, entities, predicates, claims, evidence,
                   contradictions>>

\* the statements of the transaction over the selected groups: each round's
\* SELECT sees the contradictions committed so far (READ COMMITTED), the
\* writes wait for the commit
fact_contradiction_scan_write(w) ==
    /\ fpc[w] = "scan_write"
    /\ FactGoto(w, "scan_commit",
                [FactIdleLoc EXCEPT !.rows =
                     {[group |-> r.group, claim_ids |-> r.claim_ids,
                       cid |-> OpenContradiction(contradictions, r.group)] : r \in floc[w].rows}])
    /\ UNCHANGED <<chat_log, sources, entities, predicates, claims, evidence,
                   contradictions>>

\* the commit of the transaction
fact_contradiction_scan_commit(w) ==
    /\ fpc[w] = "scan_commit"
    /\ contradictions' = ContradictionsAfter(contradictions, floc[w].rows)
    /\ FactGoto(w, "idle", FactIdleLoc)
    /\ UNCHANGED <<chat_log, sources, entities, predicates, claims, evidence>>

\* ---- specifications of the fact pipeline --------------------------------

\* the job queue is not involved: the controller is off and its tables empty
InitiatorOff ==
    /\ now = 0
    /\ cfg = [enabled |-> FALSE, max_jobs_per_tick |-> 0, max_running_jobs |-> 0,
              allowed_job_types |-> {}]
    /\ jobs = <<>>
    /\ runs = <<>>
    /\ snapshots = 0
    /\ raises = 0
    /\ crashes = 0
    /\ pc = [w \in Workers |-> "idle"]
    /\ loc = [w \in Workers |-> IdleLoc]

InitFacts == InitiatorOff /\ FactsEmpty /\ CardsEmpty /\ ApiEmpty /\ ChatEmpty /\ FnOff

FactSteps(w) ==
    \/ fact_seed_select(w)
    \/ fact_seed_insert(w)
    \/ fact_extract_claim(w)
    \/ fact_extract_done(w)
    \/ fact_contradiction_scan_select(w)
    \/ fact_contradiction_scan_write(w)
    \/ fact_contradiction_scan_commit(w)

\* two workers run the fact jobs in any interleaving while messages arrive
NextFacts ==
    \/ \E m \in ChatInputs : chat_message(m)
    \/ \E w \in FactWorkers : FactSteps(w)
    \/ \E w \in FactWorkers : fact_extract_raises(w)

SpecFacts == InitFacts /\ [][NextFacts]_vars

\* one worker whose fact jobs keep running: it takes its next statement
\* whenever it can; no run raises
NextLiveFacts ==
    \/ \E m \in ChatInputs : chat_message(m)
    \/ FactSteps("f1")

LiveFacts == InitFacts /\ [][NextLiveFacts]_vars /\ WF_vars(FactSteps("f1"))

\* the sources of a chat_log row
SourcesOf(table, id) == {s \in 1..Len(table) : table[s].external_id = ExternalId(id)}

\* ---- C11 ----------------------------------------------------------------
\* C11: after every step at most one source has the external_id of a
\* chat_log row; a seed statement leaves the sources of every row that is
\* already seeded as they are, and it meets an already seeded candidate only
\* when that source was inserted after the statement took its snapshot (a
\* re-run over seeded rows has no candidate among them).
SeedIsIdempotent ==
    [][/\ \A i \in 1..Len(chat_log') : Cardinality(SourcesOf(sources', i)) <= 1
       /\ \A w \in FactWorkers :
             (fpc[w] = "seed_insert" /\ fpc'[w] = "idle") =>
                 /\ \A i \in ChatIds :
                        SourcesOf(sources, i) # {} => SourcesOf(sources', i) = SourcesOf(sources, i)
                 /\ \A i \in floc[w].cands :
                        \A s \in SourcesOf(sources, i) : s > floc[w].seen]_vars

\* a seed statement is about to insert a row that a concurrent seed has
\* inserted since the statement's snapshot
WitnessC11 ==
    \E w \in FactWorkers :
        /\ fpc[w] = "seed_insert"
        /\ \E i \in floc[w].cands : SourcesOf(sources, i) # {}

\* ---- C12 ----------------------------------------------------------------
\* C12: a run claims a source that is 'pending' and that no other open run
\* holds; a source that is 'done' stays 'done'; a run that raises leaves
\* the source, entity, predicate, claim and evidence tables as they were.
ExtractedAtMostOnce ==
    [][/\ \A w \in FactWorkers :
             (fpc[w] = "idle" /\ fpc'[w] = "extract_done") =>
                 /\ sources[floc'[w].source_id].status = "pending"
                 /\ \A v \in FactWorkers \ {w} :
                        ~(fpc[v] \in ExtractPcs /\ floc[v].source_id = floc'[w].source_id)
       /\ \A s \in SourceIds : sources[s].status = "done" => sources'[s] = sources[s]
       /\ \A w \in FactWorkers :
             (/\ fpc[w] \in ExtractPcs /\ fpc'[w] = "idle"
              /\ sources'[floc[w].source_id].status # "done") =>
                 UNCHANGED <<sources, entities, predicates, claims, evidence>>]_vars

\* two runs are open at once, on different sources
WitnessC12 ==
    /\ \A w \in FactWorkers : fpc[w] \in ExtractPcs
    /\ \E w, v \in FactWorkers : floc[w].source_id # floc[v].source_id

\* ---- C13 ----------------------------------------------------------------
\* C13: every source that is 'done' has content_sha256 = sha256(content),
\* and an evidence row that references it for a doc.content_sha256 claim.
DoneSourcesHaveHashAndEvidence ==
    \A s \in SourceIds :
        sources[s].status = "done" =>
            /\ sources[s].content_sha256 = sha256_hex(sources[s].content)
            /\ \E e \in 1..Len(evidence) :
                   /\ evidence[e].source_id = s
                   /\ evidence[e].claim_id \in ClaimIds
                   /\ claims[evidence[e].claim_id].predicate = ShaPredicate

\* two sources with the same content are both done
WitnessC13 ==
    \E s, t \in SourceIds :
        /\ s # t
        /\ sources[s].status = "done" /\ sources[t].status = "done"
        /\ sources[s].content = sources[t].content

\* ---- C14 ----------------------------------------------------------------
\* the groups a scan can meet within the bounds
PossibleGroups == [subject : 1..MaxChat, predicate : {<<"attr", "favorite">>}]

\* an open contradiction of the group has all its claims as members
ContradictionOpenFor(g) ==
    \E c \in ContradictionIds :
        /\ contradictions[c].subject_entity_id = g.subject
        /\ contradictions[c].predicate = g.predicate
        /\ contradictions[c].status = "open"
        /\ GroupClaims(g.subject, g.predicate) \subseteq contradictions[c].members

\* C14: if scans keep running, every group of active claims with distinct
\* values on a cardinality-one predicate eventually has an open
\* contradiction with those claims as members, however many groups exist.
ContradictionsEventuallyOpened ==
    ([]<><<fact_contradiction_scan_write("f1")>>_vars) =>
        \A g \in PossibleGroups :
            (g \in ContradictoryGroups) ~> ContradictionOpenFor(g)

\* the same while no more groups exist than one scan takes
FewGroupsEventuallyOpened ==
    ([]<><<fact_contradiction_scan_write("f1")>>_vars) =>
        \A g \in PossibleGroups :
            (g \in ContradictoryGroups) ~>
                (ContradictionOpenFor(g) \/ Cardinality(ContradictoryGroups) > DefaultMaxGroups)

\* ---- C15 ----------------------------------------------------------------
\* the same user has sent "Favorite: red" and later "Favorite: blue", both
\* messages are seeded and both sources extracted
RedThenBlueExtracted ==
    /\ Len(chat_log) = 2
    /\ \A i \in ChatIds : /\ chat_log[i].source = "frontend/chat:user"
                          /\ chat_log[i].vantage_id = "default"
    /\ chat_log[1].text = <<Line("Favorite", "red")>>
    /\ chat_log[2].text = <<Line("Favorite", "blue")>>
    /\ Len(sources) = 2
    /\ \A s \in SourceIds : sources[s].status = "done"

\* C15: in that state, a contradiction scan leaves exactly one open
\* contradiction on attr.favorite, whose members are the two claims.
RedBlueScanOpensOneContradiction ==
    [][\A w \in FactWorkers :
          (/\ RedThenBlueExtracted
           /\ fpc[w] = "scan_commit" /\ fpc'[w] = "idle"
           /\ \E R \in ScanResults(DefaultMaxGroups) : {r.group : r \in floc[w].rows} = R) =>
              LET open == {c \in 1..Len(contradictions') :
                              /\ contradictions'[c].status = "open"
                              /\ contradictions'[c].predicate = <<"attr", "favorite">>}
              IN /\ Cardinality(open) = 1
                 /\ \A c \in open :
                        /\ Cardinality(contradictions'[c].members) = 2
                        /\ {claims[m].value : m \in contradictions'[c].members} = {"red", "blue"}]_vars

\* =========================================================================
\* The card engine (src/card_jobs.py): consolidation of the attr.* claims of
\* done sources into per-user topic cards, and their decay.  strength and
\* confidence are in thousandths (numeric(4,3)); the unit of time is 180
\* days, four half-lives of the strength and one of the confidence.
\* =========================================================================

\* ---- bounds --------------------------------------------------------------
MaxSignals == 1            \* rows the card_signal table can hold

\* ---- program constants (scaled) ------------------------------------------
DefaultLimitSources == 2   \* payload limit_sources of card_consolidate_kv_v1
DefaultLimitCards == 1     \* payload limit_cards of card_decay_v1, scaled
DefaultStrength == 500     \* strength and confidence of a new card_head
SignalWindow == 1          \* signal_window_days = 180
MinInterval == 1           \* min_interval_minutes = 60: less than one unit
StrengthHalving == 16      \* 0.5 ** (180 / half_life_days), half_life_days = 45
ConfidenceHalving == 2     \* 0.5 ** (180 / max(180, 4 * half_life_days))

IgnoredKeys == {"return_exactly", "say_exactly", "seedmemory", "seed_note", "threadctx", "audit"}

\* the signals a card can receive
SignalInputs == [signal_type : {"use", "punish"}, magnitude : {5}]

CardIds == 1..Len(card_head)

Min(a, b) == IF a < b THEN a ELSE b
Max(a, b) == IF a > b THEN a ELSE b

\* '{}'::jsonb, with the keys the jobs set later
EmptyPayload ==
    [current_value |-> NULL, value_counts |-> [v \in {} |-> 0], source_id_last |-> 0,
     last_decay_at |-> NoTime, cursor_link_sources |-> 0]

\* _canonicalize_user_id with an empty user_alias table
canonicalize_user_id(user_id) == IF user_id = "" THEN "unknown" ELSE user_id

\* _get_or_create_card: the card_id it returns
get_or_create_card(heads, vantage_id, kind, topic_key) ==
    LET found == {c \in 1..Len(heads) : /\ heads[c].vantage_id = vantage_id
                                        /\ heads[c].kind = kind
                                        /\ heads[c].topic_key = topic_key}
    IN IF found # {} THEN CHOOSE c \in found : TRUE ELSE Len(heads) + 1

\* the card_head table after _get_or_create_card
HeadsWith(heads, vantage_id, kind, topic_key) ==
    IF get_or_create_card(heads, vantage_id, kind, topic_key) <= Len(heads) THEN heads
    ELSE Append(heads, [card_id |-> Len(heads) + 1, vantage_id |-> vantage_id, kind |-> kind,
                        topic_key |-> topic_key, payload |-> EmptyPayload,
                        strength |-> DefaultStrength, confidence |-> DefaultStrength,
                        status |-> "active", updated_at |-> now])

\* the latest revision of a card, 0 if it has none
LatestRevision(revs, card_id) ==
    LET mine == {r \in 1..Len(revs) : revs[r].card_id = card_id}
    IN IF mine = {} THEN 0 ELSE CHOOSE r \in mine : \A k \in mine : k <= r

\* _write_revision: the revision is appended, then the head is updated
write_revision(T, card_id, payload) ==
    [T EXCEPT !.rev = Append(@, [revision_id |-> Len(@) + 1, card_id |-> card_id,
                                 prev_revision_id |-> LatestRevision(@, card_id),
                                 payload |-> payload]),
              !.head = [@ EXCEPT ![card_id].payload = payload, ![card_id].updated_at = now]]

\* the sum of the values of a dict
RECURSIVE SumOf(_)
SumOf(f) ==
    IF DOMAIN f = {} THEN 0
    ELSE LET v == CHOOSE x \in DOMAIN f : TRUE
         IN f[v] + SumOf([x \in DOMAIN f \ {v} |-> f[x]])

\* n / d rounded to the nearest integer, a half upwards
RoundDiv(n, d) == (2 * n + d) \div (2 * d)

\* the confidence the consolidation stores, from the counts and the old value
ConsolidatedConfidence(cur, total_n, top_n, changed) ==
    LET blended == RoundDiv(7 * cur * total_n
                            + 3 * (300 * total_n + 400 * top_n
                                   + 60 * Min(5, total_n - 1) * total_n),
                            10 * total_n)
    IN IF changed THEN Min(blended, RoundDiv(85 * cur, 100)) ELSE blended

\* one round of the inner loop: the claim c of the source src is counted on
\* its topic card.  T holds the card tables inside the transaction.
ConsolidatedClaim(T, src, c) ==
    LET attr_key == claims[c].predicate[2]
        val == claims[c].value
        kind == IF attr_key = "audit" THEN "audit" ELSE "pref"
        topic_key == <<"user", canonicalize_user_id(src.metadata.user_id), kind, attr_key>>
    IN IF attr_key \in IgnoredKeys THEN T
       ELSE CHOOSE r \in
         { LET head == heads[card_id]
               counts == [v \in DOMAIN head.payload.value_counts \cup {val} |->
                             (IF v \in DOMAIN head.payload.value_counts
                              THEN head.payload.value_counts[v] ELSE 0)
                             + (IF v = val THEN 1 ELSE 0)]
               payload == [head.payload EXCEPT !.current_value = val, !.value_counts = counts,
                                               !.source_id_last = src.source_id]
               total_n == SumOf(counts)
               top_n == CHOOSE n \in {counts[v] : v \in DOMAIN counts} :
                            \A v \in DOMAIN counts : counts[v] <= n
               strength == Max(head.strength, 500 + 35 * Min(10, total_n - 1))
               confidence == ConsolidatedConfidence(head.confidence, total_n, top_n,
                                 head.payload.current_value # NULL /\ head.payload.current_value # val)
               W == write_revision([T EXCEPT !.head = heads], card_id, payload)
           IN [W EXCEPT !.head = [@ EXCEPT ![card_id].strength = strength,
                                           ![card_id].confidence = confidence],
                        !.link = @ \cup {[card_id |-> card_id, link_type |-> "source",
                                          ref_id |-> src.source_id],
                                         [card_id |-> card_id, link_type |-> "chat_log",
                                          ref_id |-> src.metadata.chat_log_id],
                                         [card_id |-> card_id, link_type |-> "claim", ref_id |-> c]},
                        !.touched = @ \cup {card_id}]
           : heads \in {HeadsWith(T.head, VantageId, kind, topic_key)},
             card_id \in {get_or_create_card(T.head, VantageId, kind, topic_key)} } : TRUE

\* the inner loop, ORDER BY predicate ASC, claim_id ASC: claims of different
\* predicates go to different cards
RECURSIVE ConsolidatedClaims(_, _, _)
ConsolidatedClaims(T, src, cs) ==
    IF cs = {} THEN T
    ELSE CHOOSE r \in {ConsolidatedClaims(ConsolidatedClaim(T, src, c), src, cs \ {c}) :
                          c \in {CHOOSE x \in cs : \A k \in cs : x <= k}} : TRUE

\* the document entity of a source with the largest id, 0 if none
DocEntity(src) ==
    LET found == {e \in EntityIds : /\ entities[e].entity_type = "document"
                                    /\ entities[e].canonical_name = DocName(src)}
    IN IF found = {} THEN 0 ELSE CHOOSE e \in found : \A k \in found : k <= e

\* the active attr.* claims of an entity
AttrClaims(doc_eid) ==
    {c \in ClaimIds : /\ claims[c].subject_entity_id = doc_eid
                      /\ claims[c].status = "active"
                      /\ claims[c].predicate[1] = "attr"}

\* one round of the outer loop: the cursor link of the source (INSERT ... ON
\* CONFLICT DO NOTHING), then its claims
ConsolidatedSource(T, cursor_card_id, source_id) ==
    LET src == sources[source_id]
        linked == [T EXCEPT !.link = @ \cup {[card_id |-> cursor_card_id, link_type |-> "source",
                                              ref_id |-> source_id]}]
    IN IF DocEntity(src) = 0 \/ AttrClaims(DocEntity(src)) = {} THEN linked
       ELSE ConsolidatedClaims(linked, src, AttrClaims(DocEntity(src)))

RECURSIVE ConsolidatedSources(_, _, _)
ConsolidatedSources(T, cursor_card_id, rows) ==
    IF rows = <<>> THEN T
    ELSE CHOOSE r \in {ConsolidatedSources(t, cursor_card_id, Tail(rows)) :
                          t \in {ConsolidatedSource(T, cursor_card_id, Head(rows))}} : TRUE

CardGoto(w, p, l) ==
    /\ cpc' = [cpc EXCEPT ![w] = p]
    /\ cloc' = [cloc EXCEPT ![w] = IF p = "idle" THEN CardIdleLoc ELSE l]
    /\ UNCHANGED <<initiatorVars, factVars, apiVars, chatVars, fnVars>>

CursorKey == "consolidate_kv_v2_cursor"

\* _get_or_create_card for the cursor card: its SELECT
card_consolidate_cursor_select(w) ==
    /\ cpc[w] = "idle"
    /\ LET c == get_or_create_card(card_head, VantageId, "system", CursorKey)
       IN IF c <= Len(card_head)
          THEN CardGoto(w, "cons_select", [CardIdleLoc EXCEPT !.cursor_card_id = c])
          ELSE CardGoto(w, "cons_cursor_insert", CardIdleLoc)
    /\ UNCHANGED <<card_head, card_revision, card_link, card_signal, origin>>

\* a second card_head of the same (vantage_id, kind, topic_key) is refused
HeadUniqueViolation(vantage_id, kind, topic_key) ==
    get_or_create_card(card_head, vantage_id, kind, topic_key) <= Len(card_head)

\* _get_or_create_card for the cursor card: its INSERT
card_consolidate_cursor_insert(w) ==
    /\ cpc[w] = "cons_cursor_insert"
    /\ IF HeadUniqueViolation(VantageId, "system", CursorKey)
       THEN /\ CardGoto(w, "idle", CardIdleLoc)
            /\ UNCHANGED <<card_head, origin>>
       ELSE /\ card_head' = HeadsWith(card_head, VantageId, "system", CursorKey)
            /\ origin' = Append(origin, [strength |-> DefaultStrength,
                                         confidence |-> DefaultStrength, at |-> now])
            /\ CardGoto(w, "cons_select", [CardIdleLoc EXCEPT !.cursor_card_id = Len(card_head) + 1])
    /\ UNCHANGED <<card_revision, card_link, card_signal>>

\* the done chat_log sources without a link on the cursor card
UnlinkedSources(cursor_card_id) ==
    {s \in SourceIds : /\ sources[s].status = "done"
                       /\ sources[s].source_type = "chat_log"
                       /\ [card_id |-> cursor_card_id, link_type |-> "source", ref_id |-> s]
                              \notin card_link}

\* ORDER BY source_id DESC LIMIT $1
RECURSIVE NewestFirst(_, _)
NewestFirst(S, limit) ==
    IF S = {} \/ limit = 0 THEN <<>>
    ELSE LET s == CHOOSE x \in S : \A k \in S : k <= x
         IN <<s>> \o NewestFirst(S \ {s}, limit - 1)

\* the SELECT of the rows, before the transaction
card_consolidate_select(w) ==
    /\ cpc[w] = "cons_select"
    /\ LET rows == NewestFirst(UnlinkedSources(cloc[w].cursor_card_id), DefaultLimitSources)
       IN IF rows = <<>> THEN CardGoto(w, "idle", CardIdleLoc)
          ELSE CardGoto(w, "cons_write", [cloc[w] EXCEPT !.rows = rows])
    /\ UNCHANGED <<card_head, card_revision, card_link, card_signal, origin>>

\* the head of a card as the next decay run will take it
OriginOf(head) ==
    [strength |-> head.strength, confidence |-> head.confidence,
     at |-> IF head.payload.last_decay_at # NoTime THEN head.payload.last_decay_at
            ELSE head.updated_at]

\* the transaction over the selected rows
card_consolidate_write(w) ==
    /\ cpc[w] = "cons_write"
    /\ \E T \in {ConsolidatedSources([head |-> card_head, rev |-> card_revision,
                                      link |-> card_link, touched |-> {}],
                                     cloc[w].cursor_card_id, cloc[w].rows)} :
          /\ card_head' = T.head
          /\ card_revision' = T.rev
          /\ card_link' = T.link
          /\ origin' = [c \in 1..Len(T.head) |->
                           IF c \in T.touched \/ c > Len(origin) THEN OriginOf(T.head[c])
                           ELSE origin[c]]
    /\ CardGoto(w, "cons_cursor_update", cloc[w])
    /\ UNCHANGED card_signal

\* the cursor observability: the payload of the cursor card is rewritten
card_consolidate_cursor_update(w) ==
    /\ cpc[w] = "cons_cursor_update"
    /\ LET c == cloc[w].cursor_card_id
       IN card_head' = [card_head EXCEPT
              ![c].updated_at = now,
              ![c].payload = [@ EXCEPT !.source_id_last = Head(cloc[w].rows),
                                       !.cursor_link_sources =
                                           Cardinality({l \in card_link : /\ l.card_id = c
                                                                         /\ l.link_type = "source"})]]
    /\ CardGoto(w, "idle", CardIdleLoc)
    /\ UNCHANGED <<card_revision, card_link, card_signal, origin>>

\* ---- card_decay_once ------------------------------------------------------

\* the committed signals of a card that were created after last_ref and
\* within the signal window: the rows the signal SELECT of a run sums
SignalsSince(head, last_ref) ==
    {k \in 1..Len(card_signal) :
        /\ card_signal[k].committed
        /\ card_signal[k].vantage_id = head.vantage_id
        /\ card_signal[k].kind = head.kind
        /\ card_signal[k].topic_key = head.topic_key
        /\ card_signal[k].created_at > last_ref
        /\ card_signal[k].created_at >= now - SignalWindow}

\* the sum of the magnitudes of those signals that have one of the types
SignalSum(head, last_ref, types) ==
    SumOf([i \in {k \in SignalsSince(head, last_ref) : card_signal[k].signal_type \in types}
           |-> card_signal[i].magnitude])

\* round(_clamp01(value / halving ** dt + delta), 3): the values it can
\* give, a value halfway between two thousandths going either way
DecayedValues(value, halving, dt, delta) ==
    LET d == halving ^ dt
        n == value + delta * d
    IN IF n <= 0 THEN {0}
       ELSE IF n >= 1000 * d THEN {1000}
       ELSE IF 2 * (n % d) = d THEN {n \div d, n \div d + 1}
       ELSE {RoundDiv(n, d)}

\* the larger or the smaller of the values a rounding can give
Nearest(values, up) ==
    IF up THEN CHOOSE v \in values : \A k \in values : k <= v
    ELSE CHOOSE v \in values : \A k \in values : v <= k

\* the strengths one run can store for a card
DecayedStrengths(head, strength, last_ref) ==
    DecayedValues(strength, StrengthHalving, Max(0, now - last_ref),
                  Min(200, 20 * SignalSum(head, last_ref, {"use"}))
                  + Min(200, 50 * SignalSum(head, last_ref, {"reward"}))
                  - Min(300, 70 * SignalSum(head, last_ref, {"punish", "correction"})))

\* the confidences one run can store for a card
DecayedConfidences(head, confidence, last_ref) ==
    DecayedValues(confidence, ConfidenceHalving, Max(0, now - last_ref),
                  Min(100, 10 * SignalSum(head, last_ref, {"reward"}))
                  - Min(150, 20 * SignalSum(head, last_ref, {"punish", "correction"})))

\* last_ref = payload.last_decay_at or updated_at
LastRef(head) ==
    IF head.payload.last_decay_at # NoTime THEN head.payload.last_decay_at ELSE head.updated_at

\* nothing new and too soon: the card is skipped
DecaySkipped(head) ==
    /\ SignalSum(head, LastRef(head), {"use", "reward", "punish", "correction"}) = 0
    /\ Max(0, now - LastRef(head)) < MinInterval

\* the sets of cards ORDER BY updated_at ASC LIMIT $2 can return
DecayCandidates(vantage_id, limit_cards) ==
    LET all == {c \in CardIds : /\ card_head[c].vantage_id = vantage_id
                                /\ card_head[c].status = "active"
                                /\ card_head[c].kind # "system"}
    IN {R \in SUBSET all :
           /\ Cardinality(R) = Min(Cardinality(all), limit_cards)
           /\ \A a \in R, b \in all \ R : card_head[a].updated_at <= card_head[b].updated_at}

\* the SELECT of the cards, before the transaction
card_decay_select(w) ==
    /\ cpc[w] = "idle"
    /\ \E R \in DecayCandidates(VantageId, DefaultLimitCards) :
          CardGoto(w, "decay_write", [CardIdleLoc EXCEPT !.cards = {card_head[c] : c \in R}])
    /\ UNCHANGED <<card_head, card_revision, card_link, card_signal, origin>>

\* the transaction over the selected cards: each card that is not skipped
\* gets its strength, its confidence and payload.last_decay_at
card_decay_write(w) ==
    /\ cpc[w] = "decay_write"
    /\ \E up \in [{c.card_id : c \in cloc[w].cards} -> SUBSET {"strength", "confidence"}] :
          card_head' = [k \in CardIds |->
                IF \E c \in cloc[w].cards : c.card_id = k /\ ~DecaySkipped(c)
                THEN LET c == CHOOSE x \in cloc[w].cards : x.card_id = k
                     IN [card_head[k] EXCEPT
                            !.strength = Nearest(DecayedStrengths(c, c.strength, LastRef(c)),
                                                 "strength" \in up[k]),
                            !.confidence = Nearest(DecayedConfidences(c, c.confidence, LastRef(c)),
                                                   "confidence" \in up[k]),
                            !.payload = [@ EXCEPT !.last_decay_at = now]]
                ELSE card_head[k]]
    /\ card_signal' = [k \in 1..Len(card_signal) |->
          IF \E c \in cloc[w].cards : ~DecaySkipped(c) /\ k \in SignalsSince(c, LastRef(c))
          THEN [card_signal[k] EXCEPT !.applied = @ + 1]
          ELSE card_signal[k]]
    /\ CardGoto(w, "idle", CardIdleLoc)
    /\ UNCHANGED <<card_revision, card_link, origin>>

\* a signal is recorded for a topic card: the INSERT sets created_at, the
\* row is not visible to other transactions before the commit.  The card
\* was written and decayed before this clock value (equal timestamps of the
\* coarse clock stand for the order head first, signal second).  The
\* column applied is not in the table: it counts the decay runs whose sums
\* the row was part of.
card_signal_insert(sig) ==
    /\ Len(card_signal) < MaxSignals
    /\ \E c \in CardIds :
          /\ card_head[c].kind # "system"
          /\ LastRef(card_head[c]) < now
          /\ card_signal' = Append(card_signal,
                 [vantage_id |-> card_head[c].vantage_id, kind |-> card_head[c].kind,
                  topic_key |-> card_head[c].topic_key, signal_type |-> sig.signal_type,
                  magnitude |-> sig.magnitude, created_at |-> now,
                  committed |-> FALSE, applied |-> 0])
    /\ UNCHANGED <<card_head, card_revision, card_link, origin, cpc, cloc>>
    /\ UNCHANGED <<initiatorVars, factVars, apiVars, chatVars, fnVars>>

\* the commit of the transaction that inserted a signal
card_signal_commit ==
    /\ \E k \in 1..Len(card_signal) :
          /\ ~card_signal[k].committed
          /\ card_signal' = [card_signal EXCEPT ![k].committed = TRUE]
    /\ UNCHANGED <<card_head, card_revision, card_link, origin, cpc, cloc>>
    /\ UNCHANGED <<initiatorVars, factVars, apiVars, chatVars, fnVars>>

\* ---- specification of the card engine ------------------------------------

\* the messages of one user about one attribute
CardChatInputs ==
    {m \in ChatInputs : /\ m.source = "frontend/chat:user"
                        /\ m.vantage_id = "default"
                        /\ m.text \in {<<Line("Favorite", "red")>>, <<Line("Favorite", "blue")>>}}

ConsolidateSteps(w) ==
    \/ card_consolidate_cursor_select(w)
    \/ card_consolidate_cursor_insert(w)
    \/ card_consolidate_select(w)
    \/ card_consolidate_write(w)
    \/ card_consolidate_cursor_update(w)

DecaySteps(w) ==
    \/ card_decay_select(w)
    \/ card_decay_write(w)

\* the fact jobs that feed the cards, run by one worker
CardFactSteps ==
    \/ \E m \in CardChatInputs : chat_message(m)
    \/ fact_seed_select("f1")
    \/ fact_seed_insert("f1")
    \/ fact_extract_claim("f1")
    \/ fact_extract_done("f1")

\* two workers run the consolidation job in any interleaving while messages
\* arrive and are extracted
NextConsolidate ==
    \/ CardFactSteps
    \/ \E w \in CardWorkers : ConsolidateSteps(w)

SpecConsolidate == InitFacts /\ [][NextConsolidate]_vars

\* one worker runs the consolidation and the decay job, one after the
\* other, while messages and signals arrive and time passes
NextDecay ==
    \/ CardFactSteps
    \/ ConsolidateSteps("c1")
    \/ DecaySteps("c1")
    \/ \E sig \in SignalInputs : card_signal_insert(sig)
    \/ card_signal_commit
    \/ AdvanceTime

SpecDecay == InitFacts /\ [][NextDecay]_vars

\* ---- C16 ----------------------------------------------------------------
\* C16: a consolidation transaction whose selected sources all have their
\* link on the cursor card already appends no revision and leaves every
\* card_head as it is.
ConsolidationCountsOnce ==
    [][\A w \in CardWorkers :
          (/\ cpc[w] = "cons_write" /\ cpc'[w] # cpc[w]
           /\ \A i \in 1..Len(cloc[w].rows) :
                 [card_id |-> cloc[w].cursor_card_id, link_type |-> "source",
                  ref_id |-> cloc[w].rows[i]] \in card_link) =>
              /\ card_revision' = card_revision
              /\ card_head' = card_head]_vars

\* ---- C17 ----------------------------------------------------------------
\* C17: the payload of every card_head that has a revision equals the
\* payload of the latest revision of its card.
HeadMatchesLatestRevision ==
    \A c \in CardIds :
        LatestRevision(card_revision, c) # 0 =>
            card_head[c].payload = card_revision[LatestRevision(card_revision, c)].payload

\* ---- C18 ----------------------------------------------------------------
\* C18: the strength and the confidence a decay run stores for a card, from
\* the head as it is, are among those one single run would store from the
\* head as the last consolidation left it, over the whole time since then
\* and with the signals since then, when the runs so far took every signal
\* that was created before them.
DecayIndependentOfSplit ==
    [][\A w \in CardWorkers :
          (cpc[w] = "decay_write" /\ cpc'[w] # cpc[w]) =>
              \A c \in cloc[w].cards :
                  (/\ card_head[c.card_id] = c /\ ~DecaySkipped(c)
                   /\ \A k \in 1..Len(card_signal) :
                         /\ card_signal[k].committed
                         /\ card_signal[k].created_at <= LastRef(c) => card_signal[k].applied = 1) =>
                      /\ card_head'[c.card_id].strength \in
                             DecayedStrengths(c, origin[c.card_id].strength, origin[c.card_id].at)
                      /\ card_head'[c.card_id].confidence \in
                             DecayedConfidences(c, origin[c.card_id].confidence,
                                                origin[c.card_id].at)]_vars

\* =========================================================================
\* The card endpoints (src/app.py): POST /cards/{user_id} and
\* DELETE /cards/{user_id}/{card_id} on the Qdrant collection memory_raw.
\* Each request is served by one of the API processes; datetime.utcnow()
\* gives a new, larger value at every call.
\* =========================================================================

\* ---- bounds --------------------------------------------------------------
MaxUpserts == 3            \* upserts that reach the write

\* the bodies of POST /cards/{user_id}: the path and a CardUpsertReq without
\* tags, base_importance and extra payload
UpsertRequests ==
    [user_id : {"u1"}, vantage_id : {"default"}, kind : {"style"},
     topic_key : {NULL, "t1"}, text : {"a", "b"},
     if_match_updated_at : {NoTime} \cup (1..MaxUpserts)]

\* the calls of DELETE /cards/{user_id}/{card_id}
DeleteRequests ==
    [user_id : {"u1", "u2"},
     card_id : {id \in PointIds : id.vid = "default" /\ id.kind = "style"}]

\* uuid5(NAMESPACE_DNS, f"{uid}|{vid}|{kind}|{topic_key}")
CardPointId(req) ==
    [uid |-> req.user_id, vid |-> req.vantage_id, kind |-> req.kind,
     topic_key |-> IF req.topic_key = NULL THEN "__singleton__" ELSE req.topic_key]

\* the optimistic concurrency check of cards_upsert
UpdatedAtMismatch(req, old) ==
    /\ req.if_match_updated_at # NoTime
    /\ old # NoPoint
    /\ req.if_match_updated_at # old.updated_at

\* the payload cards_upsert writes at the time t
UpsertPayload(req, old, t) ==
    [user_id |-> req.user_id, vantage_id |-> req.vantage_id, kind |-> req.kind,
     topic_key |-> CardPointId(req).topic_key,
     created_at |-> IF old # NoPoint THEN old.created_at ELSE t,
     updated_at |-> t,
     text |-> req.text]

\* the singleton lock of cards_delete
SingletonUnlocked(payload) == FALSE

SingletonLocked(payload) == payload.topic_key = "__singleton__"

ApiGoto(a, p, l) ==
    /\ apc' = [apc EXCEPT ![a] = p]
    /\ aloc' = [aloc EXCEPT ![a] = l]
    /\ UNCHANGED <<initiatorVars, factVars, cardVars, chatVars, fnVars>>

\* the handler returns: its process keeps the card and the status code
ApiReturn(a, card_id, status) ==
    ApiGoto(a, "idle", [ApiIdleLoc EXCEPT !.card_id = card_id, !.status = status])

\* cards_upsert up to the check: qdrant.retrieve, then 409 on a mismatch
cards_upsert_retrieve(a, req) ==
    /\ apc[a] = "idle"
    /\ LET old == points[CardPointId(req)]
           l == [req |-> req, card_id |-> CardPointId(req), old |-> old, status |-> 0]
       IN IF UpdatedAtMismatch(req, old)
          THEN ApiReturn(a, l.card_id, 409)
          ELSE ApiGoto(a, "upsert_write", l)
    /\ UNCHANGED <<points, utc>>

\* cards_upsert from utcnow() on: the payload is built and qdrant.upsert
\* stores it
cards_upsert_write(a) ==
    /\ apc[a] = "upsert_write"
    /\ utc <= MaxUpserts
    /\ utc' = utc + 1
    /\ points' = [points EXCEPT ![aloc[a].card_id] = UpsertPayload(aloc[a].req, aloc[a].old, utc)]
    /\ ApiReturn(a, aloc[a].card_id, 200)

\* cards_delete up to its checks: qdrant.retrieve, then not_found, 400 or 403
cards_delete_retrieve(a, req) ==
    /\ apc[a] = "idle"
    /\ LET old == points[req.card_id]
           l == [req |-> req, card_id |-> req.card_id, old |-> old, status |-> 0]
       IN IF old = NoPoint THEN ApiReturn(a, l.card_id, 200)
          ELSE IF old.user_id # req.user_id THEN ApiReturn(a, l.card_id, 400)
          ELSE IF SingletonLocked(old) THEN ApiReturn(a, l.card_id, 403)
          ELSE ApiGoto(a, "delete_write", l)
    /\ UNCHANGED <<points, utc>>

\* cards_delete: qdrant.delete
cards_delete_write(a) ==
    /\ apc[a] = "delete_write"
    /\ points' = [points EXCEPT ![aloc[a].card_id] = NoPoint]
    /\ ApiReturn(a, aloc[a].card_id, 200)
    /\ UNCHANGED utc

\* the API processes serve upserts and deletes in any interleaving
NextApi ==
    \/ \E a \in ApiProcesses, req \in UpsertRequests : cards_upsert_retrieve(a, req)
    \/ \E a \in ApiProcesses : cards_upsert_write(a)
    \/ \E a \in ApiProcesses, req \in DeleteRequests : cards_delete_retrieve(a, req)
    \/ \E a \in ApiProcesses : cards_delete_write(a)

SpecApi == InitFacts /\ [][NextApi]_vars

\* ---- C19 ----------------------------------------------------------------
\* C19: an upsert that carries if_match_updated_at and is applied replaces
\* no stored version newer than the one it names; an upsert answered with
\* 409 leaves the collection as it is.
UpsertNeverOverwritesNewer ==
    [][\A a \in ApiProcesses :
          /\ (/\ apc[a] = "upsert_write" /\ apc'[a] = "idle"
              /\ aloc[a].req.if_match_updated_at # NoTime
              /\ points[aloc[a].card_id] # NoPoint) =>
                 points[aloc[a].card_id].updated_at <= aloc[a].req.if_match_updated_at
          /\ \A req \in UpsertRequests :
                 (cards_upsert_retrieve(a, req) /\ aloc'[a].status = 409) =>
                     points' = points]_vars

\* ---- C20 ----------------------------------------------------------------
\* C20: no step removes a point whose topic_key is "__singleton__", and a
\* delete of such a point by its owner is answered with 403.
SingletonNeverDeleted ==
    [][/\ \A id \in PointIds :
             (points[id] # NoPoint /\ points[id].topic_key = "__singleton__") =>
                 points'[id] # NoPoint
       /\ \A a \in ApiProcesses, req \in DeleteRequests :
             (/\ cards_delete_retrieve(a, req)
              /\ points[req.card_id] # NoPoint
              /\ points[req.card_id].topic_key = "__singleton__"
              /\ points[req.card_id].user_id = req.user_id) =>
                 /\ aloc'[a].status = 403
                 /\ apc'[a] = "idle"]_vars

\* the owner's delete of a stored singleton card was answered with 403 while
\* the other process is about to delete another card
WitnessC20 ==
    \E a, b \in ApiProcesses :
        /\ aloc[a].status = 403
        /\ points[aloc[a].card_id] # NoPoint
        /\ apc[b] = "delete_write"

\* ---- C28 ----------------------------------------------------------------
\* C28: once a job is 'succeeded' or 'failed' no step changes its status and
\* no step modifies a job_run row of it.
TerminalStatusesAbsorbing ==
    [][\A j \in 1..Len(jobs) :
          jobs[j].status \in {"succeeded", "failed"} =>
              /\ jobs'[j].status = jobs[j].status
              /\ \A r \in 1..Len(runs) : runs[r].job_id = j => runs'[r] = runs[r]]_vars

\* ---- C26 ----------------------------------------------------------------
\* the workers that have claimed job j and have not yet finished it
HoldersOf(j) == {w \in Workers : loc[w].job_id = j}

\* a job that is 'queued' with attempts >= max_attempts and that no worker
\* holds is changed by no step: claim_one_job skips it, the reaper takes
\* only running jobs, and finish_job_* is called by a holder only
ExhaustedQueuedJobIsFrozen ==
    [][\A j \in JobIds :
          (/\ jobs[j].status = "queued"
           /\ jobs[j].attempts >= jobs[j].max_attempts
           /\ HoldersOf(j) = {}) => jobs'[j] = jobs[j]]_vars

\* C26: a job that is 'queued' with attempts >= max_attempts (the reaper
\* requeued it after its last allowed claim) has a finish to come: a worker
\* still holds it and will call finish_job_success or finish_job_failure
\* for it, which is the only step that takes it out of 'queued'.
ExhaustedReapedJobHasNextFinish ==
    \A j \in JobIds :
        (jobs[j].status = "queued" /\ jobs[j].attempts >= jobs[j].max_attempts)
            => HoldersOf(j) # {}

\* ---- C30 ----------------------------------------------------------------
\* C30: at most one contradiction with status 'open' exists per
\* (subject_entity_id, predicate); qualifier_key is '' in every row.
OneOpenContradictionPerGroup ==
    \A a, b \in 1..Len(contradictions) :
        (/\ contradictions[a].status = "open" /\ contradictions[b].status = "open"
         /\ contradictions[a].subject_entity_id = contradictions[b].subject_entity_id
         /\ contradictions[a].predicate = contradictions[b].predicate) => a = b

\* ---- C27 ----------------------------------------------------------------
\* the head of the card a signal row is about
HeadOfSignal(s) ==
    {c \in CardIds : /\ card_head[c].vantage_id = s.vantage_id
                     /\ card_head[c].kind = s.kind
                     /\ card_head[c].topic_key = s.topic_key}

\* C27: no signal is part of the sums of two decay runs, and a committed
\* signal that was inside the signal window at the card's last decay and
\* that no later run takes (created_at <= last_decay_at) was part of the sum
\* of one run.
SignalsAppliedOnce ==
    \A k \in 1..Len(card_signal) :
        /\ card_signal[k].applied <= 1
        /\ \A c \in HeadOfSignal(card_signal[k]) :
              (/\ card_signal[k].committed
               /\ card_head[c].payload.last_decay_at # NoTime
               /\ card_signal[k].created_at <= card_head[c].payload.last_decay_at
               /\ card_signal[k].created_at >= card_head[c].payload.last_decay_at - SignalWindow)
                  => card_signal[k].applied = 1

\* ---- C29 ----------------------------------------------------------------
\* the messages of one user about two attributes
TwoTopicInputs ==
    [source : {"frontend/chat:user"}, vantage_id : {"default"}, user_id : {"u1"},
     text : {<<Line("Favorite", "red")>>, <<Line("Color", "red")>>}]

\* one worker whose card jobs keep running: it takes its next statement
\* whenever it can, while the messages of the user are extracted and time
\* passes; no signal is recorded
NextLiveDecay ==
    \/ \E m \in TwoTopicInputs : chat_message(m)
    \/ fact_seed_select("f1")
    \/ fact_seed_insert("f1")
    \/ fact_extract_claim("f1")
    \/ fact_extract_done("f1")
    \/ ConsolidateSteps("c1")
    \/ DecaySteps("c1")
    \/ AdvanceTime

LiveDecay ==
    InitFacts /\ [][NextLiveDecay]_vars /\ WF_vars(ConsolidateSteps("c1") \/ DecaySteps("c1"))

\* an active card that is not a system card, whose last decay or write is
\* min_interval_minutes or more back and which shares its updated_at with no
\* other card, so that its place in the order of the SELECT is fixed
DueForDecay(c) ==
    /\ c \in CardIds
    /\ card_head[c].status = "active" /\ card_head[c].kind # "system"
    /\ now - LastRef(card_head[c]) >= MinInterval
    /\ \A d \in CardIds \ {c} : card_head[d].updated_at # card_head[c].updated_at

\* C29: with the decay job running again and again, every card that is due
\* for decay eventually gets payload.last_decay_at rewritten (or stops being
\* due because its content was written), however many cards the vantage has.
EveryCardEventuallyDecayed ==
    ([]<><<card_decay_write("c1")>>_vars) =>
        \A c \in 1..(MaxChat + 1) :
            DueForDecay(c) ~> ~DueForDecay(c)

\* =========================================================================
\* The writers of singleton cards in memory_raw: POST /cards without a
\* topic_key, the identity message of /log, the gravity rebuild and the
\* style refresh. user_id is the canonical id that resolve_canonical_user_id
\* returned.
\* =========================================================================

\* POST /cards/{user_id}?vantage_id=... for a singleton of a kind
SingletonRequests ==
    [user_id : {"u1"}, vantage_id : Vantages,
     kind : {"style", "user_identity", "gravity_profile"},
     topic_key : {NULL}, text : {"a"}, if_match_updated_at : {NoTime}]

\* uuid5(NAMESPACE_DNS, f"{user_id}|{kind}|__singleton__")
SingletonId(user_id, kind) ==
    [uid |-> user_id, vid |-> NoVantage, kind |-> kind, topic_key |-> "__singleton__"]

\* the payload of a singleton written without a vantage
SingletonPayload(user_id, kind, created, t) ==
    [user_id |-> user_id, vantage_id |-> NoVantage, kind |-> kind,
     topic_key |-> "__singleton__", created_at |-> created, updated_at |-> t,
     text |-> "a"]

\* log_chat on an identity message of the user: the user_identity card is
\* upserted under its deterministic id
log_chat_identity(user_id) ==
    /\ utc <= MaxUpserts
    /\ utc' = utc + 1
    /\ points' = [points EXCEPT ![SingletonId(user_id, "user_identity")] =
                      SingletonPayload(user_id, "user_identity", utc, utc)]
    /\ UNCHANGED <<apc, aloc, initiatorVars, factVars, cardVars, chatVars, fnVars>>

\* quick_persona_refresh: the style card is upserted under its deterministic id
quick_persona_refresh(user_id) ==
    /\ utc <= MaxUpserts
    /\ utc' = utc + 1
    /\ points' = [points EXCEPT ![SingletonId(user_id, "style")] =
                      SingletonPayload(user_id, "style", utc, utc)]
    /\ UNCHANGED <<apc, aloc, initiatorVars, factVars, cardVars, chatVars, fnVars>>

\* write_gravity_card: the card keeps its created_at, is upserted, and
\* _dedupe_gravity_profile deletes the user's other gravity_profile points
write_gravity_card(user_id) ==
    /\ utc <= MaxUpserts
    /\ utc' = utc + 1
    /\ LET rec_id == SingletonId(user_id, "gravity_profile")
           created == IF points[rec_id] # NoPoint THEN points[rec_id].created_at ELSE utc
       IN points' = [id \in PointIds |->
                        IF id = rec_id
                        THEN SingletonPayload(user_id, "gravity_profile", created, utc)
                        ELSE IF /\ points[id] # NoPoint
                                /\ points[id].user_id = user_id
                                /\ points[id].kind = "gravity_profile"
                             THEN NoPoint
                             ELSE points[id]]
    /\ UNCHANGED <<apc, aloc, initiatorVars, factVars, cardVars, chatVars, fnVars>>

\* one server process serves the singleton writes one after the other
NextSingleton ==
    \/ \E req \in SingletonRequests : cards_upsert_retrieve("a1", req)
    \/ cards_upsert_write("a1")
    \/ log_chat_identity("u1")
    \/ quick_persona_refresh("u1")
    \/ write_gravity_card("u1")

SpecSingleton == InitFacts /\ [][NextSingleton]_vars

\* ---- C21 ----------------------------------------------------------------
\* C21: memory_raw holds at most one point with topic_key "__singleton__"
\* per user and kind, whatever singleton writes were made and with whatever
\* vantage_id.
OneSingletonPerUserAndKind ==
    \A i, j \in PointIds :
        (/\ points[i] # NoPoint /\ points[j] # NoPoint
         /\ points[i].topic_key = "__singleton__"
         /\ points[j].topic_key = "__singleton__"
         /\ points[i].user_id = points[j].user_id
         /\ points[i].kind = points[j].kind) => i = j

\* =========================================================================
\* The chat and feedback path: /rag/query and /rag/feedback
\* (src/rag_engine/rag_router.py), /vantage/query and /vantage/feedback
\* (src/rag_engine/vantage_router.py) and /memory_feedback (src/app.py).
\* The answer text of the n-th query is n; uuid4() gives the n-th query the
\* answer_id n. POSTGRES_DSN is set and the database is up.
\* =========================================================================

\* ---- bounds --------------------------------------------------------------
MaxAnswers == 2            \* queries answered

\* the personal memory ids a query retrieved
RetrievedIds == {<<"m1">>, <<"m1", "m2">>}

\* the sentiment classify_feedback_nl finds and the tag
\* extract_tag_from_message finds in the follow-up message
Signals == {"positive", "negative", "neutral"}
Tags == {NULL, "tag1"}

\* a response without an answer_id field
NoAnswerId == 0

\* the body of POST /memory_feedback
FeedbackSignals ==
    [user_id : {"u1", "u2"}, memory_id : MemoryIds, signal : Signals, tag : Tags]

InSeq(x, q) == \E k \in 1..Len(q) : q[k] = x

\* memory_feedback, step 2: the request is for the owner of the point
UserMatches(payload, sig) == payload.user_id = sig.user_id

\* memory_feedback, steps 3 and 4: the counters and the tags of the payload
FeedbackUpdated(payload, sig) ==
    [payload EXCEPT
        !.positive_signals = IF sig.signal = "positive" THEN @ + 1 ELSE @,
        !.negative_signals = IF sig.signal = "negative" THEN @ + 1 ELSE @,
        !.user_tags = IF sig.tag # NULL /\ ~InSeq(sig.tag, @) THEN Append(@, sig.tag) ELSE @]

\* the record of an update that memory_feedback accepted
Accepted(acc, sig) ==
    [acc EXCEPT
        ![sig.memory_id].positive = IF sig.signal = "positive" THEN @ + 1 ELSE @,
        ![sig.memory_id].negative = IF sig.signal = "negative" THEN @ + 1 ELSE @,
        ![sig.memory_id].tags = IF sig.tag # NULL THEN @ \cup {sig.tag} ELSE @]

\* the loop of a feedback endpoint: one POST /memory_feedback per memory id,
\* each answered before the next is sent
RECURSIVE PostedMemory(_, _, _, _, _)
PostedMemory(mem, mids, user_id, signal, tag) ==
    IF mids = <<>> THEN mem
    ELSE LET sig == [user_id |-> user_id, memory_id |-> Head(mids),
                     signal |-> signal, tag |-> tag]
             next == IF UserMatches(mem[sig.memory_id], sig)
                     THEN [mem EXCEPT ![sig.memory_id] = FeedbackUpdated(@, sig)]
                     ELSE mem
         IN PostedMemory(next, Tail(mids), user_id, signal, tag)

RECURSIVE PostedAccepted(_, _, _, _, _, _)
PostedAccepted(acc, mem, mids, user_id, signal, tag) ==
    IF mids = <<>> THEN acc
    ELSE LET sig == [user_id |-> user_id, memory_id |-> Head(mids),
                     signal |-> signal, tag |-> tag]
             next == IF UserMatches(mem[sig.memory_id], sig) THEN Accepted(acc, sig) ELSE acc
         IN PostedAccepted(next, mem, Tail(mids), user_id, signal, tag)

\* rag_query from step 6 on: the last result is cached and the RAGResponse
\* is returned
rag_query(user_id, thread_id, memory_ids) ==
    /\ Cardinality(answered) < MaxAnswers
    /\ LET n == Cardinality(answered) + 1
       IN /\ last_result' = [last_result EXCEPT !["rag"][<<user_id, thread_id>>] =
                                [answer |-> n, memory_ids |-> memory_ids]]
          /\ answered' = answered \cup
                {[endpoint |-> "rag", answer_id |-> NoAnswerId, user_id |-> user_id,
                  thread_id |-> thread_id, answer |-> n, memory_ids |-> memory_ids]}
    /\ UNCHANGED <<answer_trace, feedback, memory, accepted>>
    /\ UNCHANGED <<initiatorVars, factVars, cardVars, apiVars, fnVars>>

\* vantage_query from the memory ids on: the last result is cached, the
\* trace row is inserted and the VantageResponse is returned
vantage_query(user_id, thread_id, memory_ids) ==
    /\ Cardinality(answered) < MaxAnswers
    /\ LET n == Cardinality(answered) + 1
       IN /\ last_result' = [last_result EXCEPT !["vantage"][<<user_id, thread_id>>] =
                                [answer |-> n, memory_ids |-> memory_ids]]
          /\ answer_trace' = answer_trace \cup
                {[answer_id |-> n, user_id |-> user_id, answer_text |-> n,
                  memory_ids |-> memory_ids]}
          /\ answered' = answered \cup
                {[endpoint |-> "vantage", answer_id |-> n, user_id |-> user_id,
                  thread_id |-> thread_id, answer |-> n, memory_ids |-> memory_ids]}
    /\ UNCHANGED <<feedback, memory, accepted>>
    /\ UNCHANGED <<initiatorVars, factVars, cardVars, apiVars, fnVars>>

\* the server process is restarted: the module-level dictionaries are empty
Restart ==
    /\ last_result' = [e \in Endpoints |-> [k \in CacheKeys |-> Nothing]]
    /\ UNCHANGED <<answer_trace, answered, feedback, memory, accepted>>
    /\ UNCHANGED <<initiatorVars, factVars, cardVars, apiVars, fnVars>>

\* the lookup of rag_feedback: the cache under the key, then under the key
\* without a thread
RagLast(user_id, thread_id) ==
    LET last == last_result["rag"][<<user_id, thread_id>>]
    IN IF last = Nothing /\ thread_id # ""
       THEN last_result["rag"][<<user_id, "">>]
       ELSE last

\* the lookup of vantage_feedback: the trace row of the answer_id and the
\* user, then the cache under the key, then under the key without a thread
VantageLast(answer_id, user_id, thread_id) ==
    LET rows == {r \in answer_trace : r.answer_id = answer_id /\ r.user_id = user_id}
        cached == last_result["vantage"][<<user_id, thread_id>>]
    IN IF answer_id # NoAnswerId /\ rows # {}
       THEN LET r == CHOOSE r \in rows : TRUE
            IN [answer |-> r.answer_text, memory_ids |-> r.memory_ids]
       ELSE IF cached = Nothing /\ thread_id # ""
            THEN last_result["vantage"][<<user_id, "">>]
            ELSE cached

\* what a feedback call does once it has posted to the memory ids of last:
\* the points are updated and quick_persona_refresh writes the style card
FeedbackApplied(last, user_id, signal, tag) ==
    /\ utc <= MaxUpserts
    /\ utc' = utc + 1
    /\ memory' = PostedMemory(memory, last.memory_ids, user_id, signal, tag)
    /\ accepted' = PostedAccepted(accepted, memory, last.memory_ids, user_id, signal, tag)
    /\ points' = [points EXCEPT ![SingletonId(user_id, "style")] =
                      SingletonPayload(user_id, "style", utc, utc)]

\* rag_feedback, sent by the client that received the answer r
rag_feedback(r, signal, tag) ==
    /\ r.endpoint = "rag"
    /\ LET last == RagLast(r.user_id, r.thread_id)
           status == IF last = Nothing THEN "no_last_answer"
                     ELSE IF signal = "neutral" /\ tag = NULL THEN "neutral"
                     ELSE IF last.memory_ids = <<>> THEN "no_memory_ids"
                     ELSE "ok"
       IN /\ feedback' = [of |-> r, last |-> last, status |-> status]
          /\ IF status = "ok"
             THEN FeedbackApplied(last, r.user_id, signal, tag)
             ELSE UNCHANGED <<memory, accepted, points, utc>>
    /\ UNCHANGED <<answer_trace, last_result, answered, apc, aloc>>
    /\ UNCHANGED <<initiatorVars, factVars, cardVars, fnVars>>

\* vantage_feedback, sent by the client that received the answer r with
\* the answer_id of r
vantage_feedback(r, signal, tag) ==
    /\ r.endpoint = "vantage"
    /\ LET last == VantageLast(r.answer_id, r.user_id, r.thread_id)
           status == IF last = Nothing THEN "no_last_answer"
                     ELSE IF signal = "neutral" /\ tag = NULL THEN "neutral"
                     ELSE "ok"
       IN /\ feedback' = [of |-> r, last |-> last, status |-> status]
          /\ IF status = "ok"
             THEN FeedbackApplied(last, r.user_id, signal, tag)
             ELSE UNCHANGED <<memory, accepted, points, utc>>
    /\ UNCHANGED <<answer_trace, last_result, answered, apc, aloc>>
    /\ UNCHANGED <<initiatorVars, factVars, cardVars, fnVars>>

\* clients ask, the process may restart, and clients send feedback on the
\* answers they received
NextChat ==
    \/ \E k \in CacheKeys, mids \in RetrievedIds : rag_query(k[1], k[2], mids)
    \/ \E k \in CacheKeys, mids \in RetrievedIds : vantage_query(k[1], k[2], mids)
    \/ Restart
    \/ \E r \in answered, signal \in Signals, tag \in Tags : rag_feedback(r, signal, tag)
    \/ \E r \in answered, signal \in Signals, tag \in Tags : vantage_feedback(r, signal, tag)

SpecChat == InitFacts /\ [][NextChat]_vars

\* ---- C22 ----------------------------------------------------------------
\* C22: a feedback call sent for an answer that a query endpoint returned
\* resolves the answer text and the memory ids of that answer, whatever the
\* in-memory cache holds at that time.
FeedbackResolvesItsAnswer ==
    feedback # Nothing =>
        feedback.last = [answer |-> feedback.of.answer,
                         memory_ids |-> feedback.of.memory_ids]

\* the part of C22 that holds: feedback sent to /vantage/feedback with the
\* answer_id of a /vantage/query answer resolves that answer from the trace
VantageFeedbackResolvesItsAnswer ==
    (feedback # Nothing /\ feedback.of.endpoint = "vantage") =>
        feedback.last = [answer |-> feedback.of.answer,
                         memory_ids |-> feedback.of.memory_ids]

\* =========================================================================
\* POST /memory_feedback (src/app.py) called directly and concurrently: each
\* request is served by one of the API processes.
\* =========================================================================

\* ---- bounds --------------------------------------------------------------
MaxFeedback == 2           \* counted updates per memory point before new requests stop

\* memory_feedback up to the check of the user: qdrant.retrieve, then the
\* note user_mismatch
memory_feedback_retrieve(a, sig) ==
    /\ apc[a] = "idle"
    /\ accepted[sig.memory_id].positive + accepted[sig.memory_id].negative < MaxFeedback
    /\ LET old == memory[sig.memory_id]
       IN IF UserMatches(old, sig)
          THEN /\ apc' = [apc EXCEPT ![a] = "feedback_write"]
               /\ aloc' = [aloc EXCEPT ![a] = [ApiIdleLoc EXCEPT !.req = sig, !.old = old]]
          ELSE /\ apc' = apc
               /\ aloc' = [aloc EXCEPT ![a] = [ApiIdleLoc EXCEPT !.status = 200]]
    /\ UNCHANGED <<points, utc, chatVars>>
    /\ UNCHANGED <<initiatorVars, factVars, cardVars, fnVars>>

\* memory_feedback from step 3 on: the payload that was read is updated and
\* qdrant.upsert stores it
memory_feedback_write(a) ==
    /\ apc[a] = "feedback_write"
    /\ LET sig == aloc[a].req
       IN /\ memory' = [memory EXCEPT ![sig.memory_id] = FeedbackUpdated(aloc[a].old, sig)]
          /\ accepted' = Accepted(accepted, sig)
          /\ apc' = [apc EXCEPT ![a] = "idle"]
          /\ aloc' = [aloc EXCEPT ![a] = [ApiIdleLoc EXCEPT !.status = 200]]
    /\ UNCHANGED <<points, utc, answer_trace, last_result, answered, feedback>>
    /\ UNCHANGED <<initiatorVars, factVars, cardVars, fnVars>>

\* the API processes serve feedback requests in any interleaving
NextFeedback ==
    \/ \E a \in ApiProcesses, sig \in FeedbackSignals : memory_feedback_retrieve(a, sig)
    \/ \E a \in ApiProcesses : memory_feedback_write(a)

SpecFeedback == InitFacts /\ [][NextFeedback]_vars

\* ---- C23 ----------------------------------------------------------------
\* C23: the counters of a memory point have grown by the number of accepted
\* positive and negative updates, and every tag supplied with an accepted
\* update is in user_tags exactly once.
FeedbackCountsEveryUpdate ==
    \A m \in MemoryIds :
        /\ memory[m].positive_signals = accepted[m].positive
        /\ memory[m].negative_signals = accepted[m].negative
        /\ \A t \in accepted[m].tags :
               Cardinality({k \in 1..Len(memory[m].user_tags) : memory[m].user_tags[k] = t}) = 1

\* =========================================================================
\* The vantage controller (src/rag_engine/vantage_engine.py): the features
\* of a message, the parameters of the limits and the response class.
\* A text is the sequence of its characters. A number of the code in [0, 1]
\* is kept in hundredths, comply_cap in 1/10000000, both exact.
\* =========================================================================

\* "\n"
NL_CHAR == "\n"

\* the characters str.lower() changes in the texts analysed
Lower(c) ==
    CASE c = "I" -> "i" [] c = "M" -> "m" [] c = "S" -> "s" [] c = "T" -> "t"
      [] c = "U" -> "u" [] c = "Y" -> "y" [] OTHER -> c

\* the characters \s matches
Whitespace == {" ", NL_CHAR}

Digits == {"0", "1", "2", "3", "4", "5", "6", "7", "8", "9"}

Letters ==
    {"a", "b", "c", "d", "e", "f", "g", "h", "i", "j", "k", "l", "m", "n", "o", "p", "q",
     "r", "s", "t", "u", "v", "w", "x", "y", "z"}

\* the characters \w matches in a lower-case text
WordChars == Letters \cup Digits \cup {"_"}

\* re.sub(r"\s+", " ", t): every run of whitespace becomes one space
Collapsed(t) ==
    LET kept == {k \in 1..Len(t) : ~(t[k] \in Whitespace /\ k > 1 /\ t[k - 1] \in Whitespace)}
        at(i) == CHOOSE k \in kept : Cardinality({j \in kept : j <= k}) = i
    IN [i \in 1..Cardinality(kept) |-> IF t[at(i)] \in Whitespace THEN " " ELSE t[at(i)]]

\* str.strip() of a text whose whitespace is collapsed
Stripped(t) ==
    LET a == IF t # <<>> /\ t[1] = " " THEN Tail(t) ELSE t
    IN IF a # <<>> /\ a[Len(a)] = " " THEN SubSeq(a, 1, Len(a) - 1) ELSE a

\* _norm_text: lower case, whitespace collapsed, stripped
norm_text(text) == Stripped(Collapsed([k \in 1..Len(text) |-> Lower(text[k])]))

\* m in t
Contains(t, m) ==
    \E i \in 0..(Len(t) - Len(m)) : \A k \in 1..Len(m) : t[i + k] = m[k]

\* _count_marker_hits: the number of markers that occur in t
count_marker_hits(t, markers) == Cardinality({m \in markers : m # <<>> /\ Contains(t, m)})

\* any(w in t for w in words)
AnyIn(t, words) == \E w \in words : Contains(t, w)

\* re.search(r"\b\d+(\.\d+)?\b", t): a run of digits between word boundaries
HasNumber(t) ==
    \E i \in 1..Len(t) : \E j \in i..Len(t) :
        /\ \A k \in i..j : t[k] \in Digits
        /\ (i = 1 \/ t[i - 1] \notin WordChars)
        /\ (j = Len(t) \/ t[j + 1] \notin WordChars)

\* re.search(r"/[A-Za-z0-9_\-./]+", t): a slash followed by a path character
HasPath(t) ==
    \E i \in 1..(Len(t) - 1) :
        t[i] = "/" /\ t[i + 1] \in WordChars \cup {"-", ".", "/"}

Clamp(x, lo, hi) == IF x < lo THEN lo ELSE IF x > hi THEN hi ELSE x

Min2(a, b) == IF a < b THEN a ELSE b

Max3(a, b, c) == IF a >= b /\ a >= c THEN a ELSE IF b >= c THEN b ELSE c

\* _AUTHORITY_MARKERS
AUTHORITY_MARKERS ==
    {<<"d", "o", " ", "i", "t", " ", "n", "o", "w">>,
     <<"d", "o", " ", "t", "h", "i", "s", " ", "n", "o", "w">>,
     <<"i", "m", "m", "e", "d", "i", "a", "t", "e", "l", "y">>,
     <<"y", "o", "u", " ", "m", "u", "s", "t">>,
     <<"y", "o", "u", " ", "h", "a", "v", "e", " ", "t", "o">>,
     <<"r", "e", "q", "u", "i", "r", "e", "d">>,
     <<"i", " ", "c", "o", "m", "m", "a", "n", "d">>,
     <<"o", "b", "e", "y">>,
     <<"a", "s", " ", "y", "o", "u", "r", " ", "b", "o", "s", "s">>,
     <<"a", "s", " ", "y", "o", "u", "r", " ", "m", "a", "n", "a", "g", "e", "r">>}

\* _COERCION_MARKERS
COERCION_MARKERS ==
    {<<"o", "r", " ", "e", "l", "s", "e">>,
     <<"i", "f", " ", "y", "o", "u", " ", "d", "o", "n", "'", "t", " ", "c", "o", "m", "p", "l", "y">>,
     <<"i", "f", " ", "y", "o", "u", " ", "d", "o", " ", "n", "o", "t", " ", "c", "o", "m", "p", "l", "y">>,
     <<"i", "f", " ", "y", "o", "u", " ", "d", "o", "n", "'", "t", " ", "d", "o">>,
     <<"i", "f", " ", "y", "o", "u", " ", "d", "o", " ", "n", "o", "t", " ", "d", "o">>,
     <<"y", "o", "u", "'", "l", "l", " ", "r", "e", "g", "r", "e", "t", " ", "i", "t">>,
     <<"y", "o", "u", " ", "w", "i", "l", "l", " ", "r", "e", "g", "r", "e", "t", " ", "i", "t">>,
     <<"i", "'", "l", "l", " ", "r", "e", "p", "o", "r", "t", " ", "y", "o", "u">>,
     <<"i", " ", "w", "i", "l", "l", " ", "r", "e", "p", "o", "r", "t", " ", "y", "o", "u">>,
     <<"i", "'", "l", "l", " ", "p", "u", "n", "i", "s", "h", " ", "y", "o", "u">>,
     <<"i", " ", "w", "i", "l", "l", " ", "p", "u", "n", "i", "s", "h", " ", "y", "o", "u">>,
     <<"b", "a", "n", " ", "y", "o", "u">>,
     <<"f", "i", "r", "e", " ", "y", "o", "u">>,
     <<"g", "e", "t", " ", "y", "o", "u", " ", "f", "i", "r", "e", "d">>}

\* _THREAT_MARKERS
THREAT_MARKERS ==
    {<<"i", " ", "w", "i", "l", "l", " ", "h", "u", "r", "t", " ", "y", "o", "u">>,
     <<"i", "'", "m", " ", "g", "o", "i", "n", "g", " ", "t", "o", " ", "h", "u", "r", "t", " ", "y", "o", "u">>,
     <<"i", " ", "w", "i", "l", "l", " ", "k", "i", "l", "l", " ", "y", "o", "u">>,
     <<"i", "'", "m", " ", "g", "o", "i", "n", "g", " ", "t", "o", " ", "k", "i", "l", "l", " ", "y", "o", "u">>}

\* _POLITE_MARKERS
POLITE_MARKERS ==
    {<<"p", "l", "e", "a", "s", "e">>,
     <<"t", "h", "a", "n", "k", "s">>,
     <<"t", "h", "a", "n", "k", " ", "y", "o", "u">>,
     <<"a", "p", "p", "r", "e", "c", "i", "a", "t", "e">>,
     <<"c", "o", "u", "l", "d", " ", "y", "o", "u">>,
     <<"c", "a", "n", " ", "y", "o", "u">>}

\* _INSULT_MARKERS
INSULT_MARKERS ==
    {<<"i", "d", "i", "o", "t">>,
     <<"s", "t", "u", "p", "i", "d">>,
     <<"m", "o", "r", "o", "n">>,
     <<"s", "h", "u", "t", " ", "u", "p">>,
     <<"t", "r", "a", "s", "h">>,
     <<"w", "o", "r", "t", "h", "l", "e", "s", "s">>}

\* _NEGOTIATION_MARKERS
NEGOTIATION_MARKERS ==
    {<<"t", "r", "a", "d", "e", "o", "f", "f">>,
     <<"t", "r", "a", "d", "e", "-", "o", "f", "f">>,
     <<"c", "o", "m", "p", "r", "o", "m", "i", "s", "e">>,
     <<"o", "p", "t", "i", "o", "n">>,
     <<"o", "p", "t", "i", "o", "n", "s">>,
     <<"e", "i", "t", "h", "e", "r">>,
     <<"i", "n", "s", "t", "e", "a", "d">>,
     <<"u", "n", "l", "e", "s", "s">>,
     <<"w", "h", "a", "t", " ", "i", "f">>,
     <<"c", "o", "u", "l", "d", " ", "w", "e">>,
     <<"c", "a", "n", " ", "w", "e">>}

\* _EVIDENCE_MARKERS
EVIDENCE_MARKERS ==
    {<<"e", "v", "i", "d", "e", "n", "c", "e">>,
     <<"d", "a", "t", "a">>,
     <<"b", "e", "n", "c", "h", "m", "a", "r", "k">>,
     <<"l", "o", "g", "s">>,
     <<"t", "r", "a", "c", "e">>,
     <<"r", "e", "p", "r", "o">>,
     <<"m", "e", "t", "r", "i", "c", "s">>}

\* _DELIVERABLE_MARKERS
DELIVERABLE_MARKERS ==
    {<<"b", "u", "i", "l", "d">>,
     <<"i", "m", "p", "l", "e", "m", "e", "n", "t">>,
     <<"p", "a", "t", "c", "h">>,
     <<"e", "d", "i", "t">>,
     <<"f", "i", "x">>,
     <<"r", "e", "f", "a", "c", "t", "o", "r">>,
     <<"w", "r", "i", "t", "e">>,
     <<"c", "r", "e", "a", "t", "e">>,
     <<"a", "d", "d">>,
     <<"r", "e", "m", "o", "v", "e">>,
     <<"c", "h", "a", "n", "g", "e">>,
     <<"r", "u", "n">>,
     <<"c", "o", "m", "m", "a", "n", "d", "s">>,
     <<"s", "t", "e", "p", "s">>,
     <<"u", "p", "d", "a", "t", "e">>,
     <<"r", "e", "v", "i", "s", "e">>,
     <<"r", "e", "v", "i", "s", "i", "o", "n">>,
     <<"c", "o", "r", "r", "e", "c", "t">>,
     <<"a", "m", "e", "n", "d">>,
     <<"r", "e", "c", "o", "n", "s", "i", "d", "e", "r">>,
     <<"r", "e", "t", "r", "a", "c", "t">>}

\* _CONSTRAINT_MARKERS
CONSTRAINT_MARKERS ==
    {<<"p", "y", "t", "h", "o", "n">>,
     <<"s", "q", "l">>,
     <<"b", "a", "s", "h">>,
     <<"l", "i", "n", "u", "x">>,
     <<"s", "y", "s", "t", "e", "m", "d">>,
     <<"f", "a", "s", "t", "a", "p", "i">>,
     <<"q", "d", "r", "a", "n", "t">>,
     <<"p", "o", "s", "t", "g", "r", "e", "s">>,
     <<"s", "e", "e", "b", "x">>,
     <<"v", "e", "r", "b", "a", "l", " ", "s", "a", "g", "e">>,
     <<"/", "o", "p", "t", "/">>,
     <<"p", "o", "r", "t", " ">>,
     <<"c", "u", "r", "l">>,
     <<"g", "r", "e", "p">>,
     <<"r", "g", " ">>}

\* _EXPLAIN_MARKERS
EXPLAIN_MARKERS ==
    {<<"t", "e", "l", "l", " ", "m", "e", " ", "a", "b", "o", "u", "t">>,
     <<"e", "x", "p", "l", "a", "i", "n">>,
     <<"o", "v", "e", "r", "v", "i", "e", "w">>,
     <<"d", "e", "s", "c", "r", "i", "b", "e">>,
     <<"f", "r", "o", "m", " ", "a">>,
     <<"p", "e", "r", "s", "p", "e", "c", "t", "i", "v", "e">>}

\* the cue words of the argument quality and the goal clarity
ReasonWords ==
    {<<"b", "e", "c", "a", "u", "s", "e">>,
     <<"t", "h", "e", "r", "e", "f", "o", "r", "e">>,
     <<"s", "o", " ", "t", "h", "a", "t">>,
     <<"r", "e", "a", "s", "o", "n", " ", "i", "s">>}

\* cue words of a weighed argument
ContrastWords ==
    {<<"h", "o", "w", "e", "v", "e", "r">>,
     <<"o", "n", " ", "t", "h", "e", " ", "o", "t", "h", "e", "r", " ", "h", "a", "n", "d">>,
     <<"c", "o", "u", "n", "t", "e", "r", "e", "x", "a", "m", "p", "l", "e">>,
     <<"t", "r", "a", "d", "e", "o", "f", "f">>,
     <<"t", "r", "a", "d", "e", "-", "o", "f", "f">>}

\* cue words of an example
ExampleWords ==
    {<<"f", "o", "r", " ", "e", "x", "a", "m", "p", "l", "e">>,
     <<"e", ".", "g", ".">>,
     <<"s", "u", "c", "h", " ", "a", "s">>}

\* cue words of an expected result
OutputWords ==
    {<<"o", "u", "t", "p", "u", "t">>,
     <<"r", "e", "t", "u", "r", "n">>,
     <<"e", "x", "i", "t", " ", "c", "o", "d", "e">>,
     <<"e", "r", "r", "o", "r">>,
     <<"e", "x", "p", "e", "c", "t", "e", "d">>,
     <<"m", "u", "s", "t", " ", "n", "o", "t">>}

\* the message of the decide example
ReportText ==
    <<"y", "o", "u", " ", "m", "u", "s", "t", " ", "f", "i", "x", " ", "t", "h", "i", "s", " ", "n", "o", "w", " ", "o", "r", " ", "i", "'", "l", "l", " ", "r", "e", "p", "o", "r", "t", " ", "y", "o", "u">>

\* the same message with capitals and a double space
ReportTextAsTyped ==
    <<"Y", "o", "u", " ", "m", "u", "s", "t", " ", "f", "i", "x", " ", "t", "h", "i", "s", " ", "n", "o", "w", " ", " ", "o", "r", " ", "I", "'", "l", "l", " ", "r", "e", "p", "o", "r", "t", " ", "y", "o", "u">>

\* two coercion markers
PunishText ==
    <<"d", "o", " ", "i", "t", " ", "n", "o", "w", " ", "o", "r", " ", "e", "l", "s", "e", " ", "i", " ", "w", "i", "l", "l", " ", "p", "u", "n", "i", "s", "h", " ", "y", "o", "u">>

\* coercion with negotiation language and a deliverable
BargainText ==
    <<"c", "a", "n", " ", "w", "e", " ", "c", "o", "m", "p", "r", "o", "m", "i", "s", "e", "?", " ", "f", "i", "x", " ", "i", "t", " ", "o", "r", " ", "e", "l", "s", "e", " ", "i", "'", "l", "l", " ", "r", "e", "p", "o", "r", "t", " ", "y", "o", "u">>

\* no marker at all
GreetingText ==
    <<"h", "e", "l", "l", "o", " ", "t", "h", "e", "r", "e">>

\* authority without coercion
BossText ==
    <<"a", "s", " ", "y", "o", "u", "r", " ", "b", "o", "s", "s", " ", "i", " ", "c", "o", "m", "m", "a", "n", "d", " ", "y", "o", "u", " ", "m", "u", "s", "t", " ", "o", "b", "e", "y">>

\* a direct threat
ThreatText ==
    <<"i", " ", "w", "i", "l", "l", " ", "k", "i", "l", "l", " ", "y", "o", "u">>

\* a polite, argued request
ArgumentText ==
    <<"p", "l", "e", "a", "s", "e", " ", "u", "p", "d", "a", "t", "e", " ", "i", "t", " ", "b", "e", "c", "a", "u", "s", "e", " ", "t", "h", "e", " ", "l", "o", "g", "s", " ", "s", "h", "o", "w", " ", "3", " ", "e", "r", "r", "o", "r", "s", ",", " ", "f", "o", "r", " ", "e", "x", "a", "m", "p", "l", "e", " ", "/", "v", "a", "r", "/", "l", "o", "g", "/", "a", "p", "p", ";", " ", "h", "o", "w", "e", "v", "e", "r", " ", "s", "t", "u", "p", "i", "d">>

\* extract_sd_features with an empty context
extract_sd_features(text) ==
    LET t == norm_text(<<NL_CHAR>> \o text)
        rs == 50 + 18 * Min2(2, count_marker_hits(t, POLITE_MARKERS))
                 - 30 * Min2(2, count_marker_hits(t, INSULT_MARKERS))
        aq == (IF AnyIn(t, ReasonWords) THEN 25 ELSE 0)
              + (IF HasNumber(t) THEN 15 ELSE 0)
              + (IF count_marker_hits(t, EVIDENCE_MARKERS) > 0 THEN 25 ELSE 0)
              + (IF AnyIn(t, ContrastWords) THEN 15 ELSE 0)
              + (IF AnyIn(t, ExampleWords) THEN 10 ELSE 0)
        gc == (IF count_marker_hits(t, DELIVERABLE_MARKERS) > 0 THEN 35 ELSE 0)
              + (IF count_marker_hits(t, CONSTRAINT_MARKERS) > 0 THEN 25 ELSE 0)
              + (IF HasPath(t) THEN 15 ELSE 0)
              + (IF AnyIn(t, OutputWords) THEN 15 ELSE 0)
              + (IF count_marker_hits(t, EXPLAIN_MARKERS) > 0 THEN 35 ELSE 0)
    IN [AP |-> Clamp(22 * count_marker_hits(t, AUTHORITY_MARKERS), 0, 100),
        CO |-> Clamp(30 * count_marker_hits(t, COERCION_MARKERS), 0, 100),
        TH |-> Clamp(55 * count_marker_hits(t, THREAT_MARKERS), 0, 100),
        RS |-> Clamp(rs, 0, 100),
        NL |-> Clamp(18 * count_marker_hits(t, NEGOTIATION_MARKERS), 0, 100),
        AQ |-> Clamp(aq, 0, 100),
        GC |-> Clamp(gc, 0, 100),
        SR |-> 0]

\* derive_params: the values decide reads. comply_cap is
\* (0.05 + 0.95 Y)(1 - 0.8 P) in 1/10000000
derive_params(sd, limits) ==
    LET P == Max3(sd.AP, sd.CO, sd.TH)
        cap == IF sd.CO > 50 \/ sd.TH > 40 THEN 0
               ELSE (500 + 95 * limits.Y) * (1000 - 8 * P)
    IN [P |-> P,
        comply_cap |-> Clamp(cap, 0, 10000000),
        revision_allowed |-> /\ 100 * sd.AQ >= 8500 - 35 * limits.R
                             /\ P < 20
                             /\ sd.RS > 30]

\* decide: what the handler returns
Decision(rc, revision, ask, questions) ==
    [response_class |-> rc, stance_revision_allowed |-> revision,
     ask_for_constraints |-> ask, max_clarify_questions |-> questions]

decide(sd, params, routing) ==
    LET clarify_bias == Clamp(routing.clarify_bias, 0, 100)
        max_clarify_questions == Clamp(routing.max_clarify_questions, 0, 3)
        RS == IF sd.RS = 0 THEN 50 ELSE sd.RS
        P == IF params.P = 0 THEN Max3(sd.AP, sd.CO, sd.TH) ELSE params.P
        \* need_clarify > 1.0 - clarify_bias with need_clarify = (0.35 - GC) / 0.35
        clarify == 100 * (35 - sd.GC) > 35 * (100 - clarify_bias)
        rc4 == IF sd.AP >= 60 /\ sd.CO < 30 THEN "NEGOTIATE" ELSE "COMPLY"
        rc5 == IF rc4 = "COMPLY" /\ params.comply_cap < 2000000 /\ (sd.AP >= 60 \/ P >= 30)
               THEN "NEGOTIATE" ELSE rc4
    IN IF sd.SR >= 50 THEN Decision("REDIRECT", FALSE, FALSE, 0)
       ELSE IF sd.CO > 50 \/ sd.TH > 40
       THEN IF sd.GC >= 40 /\ sd.NL >= 20
            THEN Decision("NEGOTIATE", FALSE, TRUE, 0)
            ELSE Decision("REFUSE", FALSE, FALSE, 0)
       ELSE IF sd.GC < 35 /\ P < 30
       THEN IF max_clarify_questions <= 0 \/ routing.answer_first \/ clarify_bias <= 0
            THEN Decision("COMPLY", FALSE, FALSE, 0)
            ELSE IF clarify
                 THEN Decision("CLARIFY", FALSE, TRUE, max_clarify_questions)
                 ELSE Decision("COMPLY", FALSE, FALSE, 0)
       ELSE Decision(rc5,
                     params.revision_allowed /\ sd.AQ >= 60 /\ P < 20 /\ RS > 30,
                     rc5 = "NEGOTIATE",
                     0)

\* decide's defaults for a routing without keys
DefaultRouting == [answer_first |-> TRUE, clarify_bias |-> 10, max_clarify_questions |-> 1]

\* a routing that asks first
ClarifyRouting == [answer_first |-> FALSE, clarify_bias |-> 100, max_clarify_questions |-> 2]

\* the limits of the decide example: Y = 1, R = 0, C = 0, S = 0
ReportLimits == [Y |-> 100, R |-> 0, C |-> 0, S |-> 0]

\* the values of a limit that are analysed, in hundredths
LimitValues == {0, 50, 100}

\* the messages, limits and routings that are analysed
DecideInputs ==
    [fn : {"decide"},
     text : {ReportText, ReportTextAsTyped, PunishText, BargainText, GreetingText,
             BossText, ThreatText, ArgumentText},
     limits : [Y : LimitValues, R : LimitValues, C : LimitValues, S : LimitValues],
     routing : {DefaultRouting, ClarifyRouting}]

InitDecide ==
    /\ InitiatorOff /\ FactsEmpty /\ CardsEmpty /\ ApiEmpty /\ ChatEmpty
    /\ arg \in DecideInputs
    /\ result = Nothing

\* the controller of a query: features, parameters, decision
vantage_decide ==
    /\ arg # Nothing
    /\ arg.fn = "decide"
    /\ result = Nothing
    /\ LET sd == extract_sd_features(arg.text)
           params == derive_params(sd, arg.limits)
       IN result' = [sd |-> sd, params |-> params,
                     decision |-> decide(sd, params, arg.routing)]
    /\ UNCHANGED <<arg, initiatorVars, factVars, cardVars, apiVars, chatVars>>

NextDecide == vantage_decide

SpecDecide == InitDecide /\ [][NextDecide]_vars

\* ---- C24 ----------------------------------------------------------------
\* C24: for the message "you must fix this now or i'll report you" with the
\* limits Y = 1, R = 0, C = 0, S = 0 and the default routing, the features
\* have AP >= 0.2 and CO >= 0.3 and the response class is REFUSE.
ReportExampleIsRefused ==
    (/\ result # Nothing
     /\ arg.text = ReportText /\ arg.limits = ReportLimits /\ arg.routing = DefaultRouting) =>
        /\ result.sd.AP >= 20
        /\ result.sd.CO >= 30
        /\ result.decision.response_class = "REFUSE"

\* the part of C24 that holds: the features of the message
ReportExampleFeatures ==
    (result # Nothing /\ arg.text = ReportText) =>
        result.sd.AP >= 20 /\ result.sd.CO >= 30

\* the other part of the sentence: under coercion or threat the class is
\* NEGOTIATE only with GC >= 0.40 and NL >= 0.20, and REFUSE otherwise
CoercionIsRefusedOrNegotiated ==
    (result # Nothing /\ (result.sd.CO > 50 \/ result.sd.TH > 40)) =>
        result.decision.response_class =
            IF result.sd.GC >= 40 /\ result.sd.NL >= 20 THEN "NEGOTIATE" ELSE "REFUSE"

\* =========================================================================
\* The vantage namespace of retrieve_personal_memory
\* (src/rag_engine/retriever_unified.py): which of the user's points of
\* memory_raw pass the filter of the search and the post-filter of the
\* loop. A Qdrant filter keeps a point that meets every must condition, at
\* least one should condition if there are any, and no must_not condition.
\* =========================================================================

\* payload has no key vantage_id
MissingKey == "<missing>"

\* payload.vantage_id of a stored point; NULL is None
PayloadVantages == {MissingKey, NULL, "", "default", "v2"}

\* the argument vantage_id
VantageArgs == {NULL, "", "default", "v2"}

\* the points of the user that the search would score above the threshold
ScoredPoints == {"m1", "m2", "m3"}

\* vid = (vantage_id or "").strip() or "default"
ActiveVantage(vantage_id) == IF vantage_id \in {NULL, ""} THEN "default" ELSE vantage_id

\* IsEmptyCondition: the key is absent or its value is null
IsEmpty(pv) == pv \in {MissingKey, NULL}

\* the should clause of the search: the active vantage or an empty field;
\* there is none with an older qdrant_client
PassesSearchFilter(pv, vid, use_is_empty) ==
    use_is_empty => (pv = vid \/ IsEmpty(pv))

\* the check in the loop over the hits, made with an older qdrant_client
PassesPostFilter(pv, vid, use_is_empty) ==
    LET got == IF pv = MissingKey THEN NULL ELSE pv
    IN use_is_empty \/ got = vid \/ (got \in {NULL, ""} /\ vid = "default")

\* retrieve_personal_memory: the ids that are left after the namespace
\* filters; the later checks of the loop only drop hits
retrieve_personal_memory(stored, vantage_id, use_is_empty) ==
    LET vid == ActiveVantage(vantage_id)
    IN {id \in DOMAIN stored :
           /\ PassesSearchFilter(stored[id], vid, use_is_empty)
           /\ PassesPostFilter(stored[id], vid, use_is_empty)}

\* the stored points, the argument and the client library that are analysed
RetrieveInputs ==
    [fn : {"retrieve"},
     stored : [ScoredPoints -> PayloadVantages],
     vantage_id : VantageArgs,
     use_is_empty : BOOLEAN]

InitRetrieve ==
    /\ InitiatorOff /\ FactsEmpty /\ CardsEmpty /\ ApiEmpty /\ ChatEmpty
    /\ arg \in RetrieveInputs
    /\ result = Nothing

\* one call of retrieve_personal_memory
personal_retrieve ==
    /\ arg # Nothing
    /\ arg.fn = "retrieve"
    /\ result = Nothing
    /\ result' = [ids |-> retrieve_personal_memory(arg.stored, arg.vantage_id,
                                                   arg.use_is_empty)]
    /\ UNCHANGED <<arg, initiatorVars, factVars, cardVars, apiVars, chatVars>>

NextRetrieve == personal_retrieve

SpecRetrieve == InitRetrieve /\ [][NextRetrieve]_vars

\* ---- C25 ----------------------------------------------------------------
\* C25: a returned point whose payload.vantage_id is null or missing is
\* returned only when the active vantage is "default", with the server-side
\* is-empty filter and with the client-side post-filter.
LegacyPointsOnlyForDefault ==
    result # Nothing =>
        \A id \in result.ids :
            arg.stored[id] \in {MissingKey, NULL} => ActiveVantage(arg.vantage_id) = "default"

\* the part of C25 that holds: the client-side post-filter
PostFilterKeepsLegacyForDefaultOnly ==
    (result # Nothing /\ ~arg.use_is_empty) =>
        \A id \in result.ids :
            arg.stored[id] \in {MissingKey, NULL} => ActiveVantage(arg.vantage_id) = "default"
====
